---- MODULE Spec2Model ----
(***************************************************************************)
(* Drive Synapsis: the OAuth 2.1 session store (pending authorization      *)
(* states, persisted to oauth_states.json) and the flow coordinator that   *)
(* issues and consumes those states.                                       *)
(*                                                                         *)
(* Time is a discrete clock `now`; datetimes are integers on that clock.   *)
(* A thread is a request-processing context; `lock` is the store's RLock.  *)
(***************************************************************************)
EXTENDS Integers, FiniteSets, Sequences, TLC

\* ---------------------------------------------------------------- bounds
MaxTime == 2
MaxBoots == 1

\* expires_in_seconds: int = 600; the clock counts units of 600 seconds
DefaultExpiresIn == 1
ExpiresIn == {-1, 0, DefaultExpiresIn}

Threads == {"t1", "t2"}
Clients == {"t1"}
States == {"abc123", "xyz789"}
SessionIds == {"s1", "s2"}

None == "None"
EmptyStr == ""

VARIABLES
    now,            \* datetime.now(timezone.utc)
    oauth_states,   \* OAuth21SessionStore._oauth_states
    lock,           \* owner of OAuth21SessionStore._lock, or None
    disk,           \* the file at _states_file_path
    tmp,            \* the temp file made by tempfile.mkstemp
    disk_writable,  \* whether writes under the credentials directory succeed
    boots,          \* store instances constructed after the first one
    pc,             \* each thread's position
    call,           \* each thread's current (or last) call and its arguments
    result,         \* each thread's outcome (pending until pc = "idle")
    uses,           \* successful validations returned per state since it was issued
    sessions,       \* OAuth21SessionStore._sessions
    session_mapping, \* OAuth21SessionStore._session_mapping
    cred_files,     \* the credential files of LocalDirectoryCredentialStore
    frame,          \* each thread's local variables in a coordinator call
    cred_dir,       \* whether the credential store's base_dir exists
    listener,       \* the MinimalOAuthServer instance, its threads and its port
    search_cache    \* SearchManager.search_cache

storevars == <<sessions, session_mapping, cred_files, frame>>

auxvars == <<cred_dir, listener, search_cache>>

vars == <<now, oauth_states, lock, disk, tmp, disk_writable,
          boots, pc, call, result, uses, storevars, auxvars>>

\* ------------------------------------------------------------- python values
\* Python truthiness of an Optional[str]
Truthy(x) == x # None /\ x # EmptyStr

\* dict.get(key) with default None
Get(d, key) == IF key \in DOMAIN d THEN d[key] ELSE None

EmptyDict == [k \in {} |-> None]

\* d[key] = value
Put(d, key, value) == [k \in DOMAIN d \cup {key} |-> IF k = key THEN value ELSE d[k]]

\* del d[key]
Del(d, key) == [k \in DOMAIN d \ {key} |-> d[k]]

\* datetime.isoformat / datetime.fromisoformat: the text form of an instant
isoformat(d) == <<"iso8601", d>>
fromisoformat(text) == text[2]

\* a file: absent, or holding the JSON text written so far
NoFile == [exists |-> FALSE, entries |-> EmptyDict, complete |-> FALSE]
EmptyFile == [exists |-> TRUE, entries |-> EmptyDict, complete |-> FALSE]

NoCall == [op |-> "none", state |-> EmptyStr, session_id |-> None, ttl |-> 0]
NoResult == [outcome |-> "none", info |-> EmptyDict]
NoFrame == EmptyDict

\* Optional[Credentials] is a dict of the object's fields; None is the empty one
NoCredentials == EmptyDict

\* no MinimalOAuthServer instance, no server thread, the port free
NoListener == [instance |-> FALSE, is_running |-> FALSE,
               server_threads |-> <<>>, port_taken |-> FALSE]
Outcome(o) == [outcome |-> o, info |-> EmptyDict]

\* ---------------------------------------------------------- session store

\* faulty variant: the sweep compares with < instead of <=
expired_states_strict(states, t) ==
    {s \in DOMAIN states : states[s].expires_at < t}

\* the entries _cleanup_expired_oauth_states_locked deletes at instant t
expired_states(states, t) ==
    {s \in DOMAIN states : states[s].expires_at <= t}

cleanup_expired_oauth_states_locked(states, t) ==
    [s \in DOMAIN states \ expired_states(states, t) |-> states[s]]

\* serializable_data of _save_oauth_states_to_disk
serializable_data(states) ==
    [s \in DOMAIN states |->
        [session_id |-> Get(states[s], "session_id"),
         expires_at |-> isoformat(states[s].expires_at),
         created_at |-> isoformat(states[s].created_at)]]

\* one persisted entry as _load_oauth_states_from_disk rebuilds it
parse_entry(data) ==
    [k \in DOMAIN data |->
        IF k \in {"expires_at", "created_at"} THEN fromisoformat(data[k]) ELSE data[k]]

\* faulty variant: loading without the sweep of line 131
load_without_sweep(file, t) ==
    IF ~file.exists \/ ~file.complete THEN EmptyDict
    ELSE [s \in DOMAIN file.entries |-> parse_entry(file.entries[s])]

\* _oauth_states after __init__ on `file` at instant t
load_oauth_states_from_disk(file, t) ==
    IF ~file.exists THEN EmptyDict
    ELSE IF ~file.complete THEN EmptyDict   \* json.JSONDecodeError, logged
    ELSE cleanup_expired_oauth_states_locked(
            [s \in DOMAIN file.entries |-> parse_entry(file.entries[s])], t)

\* the state_info dict store_oauth_state inserts
new_state_info(session_id, expires_in_seconds, t) ==
    [session_id |-> session_id,
     expires_at |-> t + expires_in_seconds,
     created_at |-> t]

\* the session check of validate_and_consume_oauth_state
session_mismatch(state_info, session_id) ==
    LET bound_session == Get(state_info, "session_id")
    IN  Truthy(bound_session) /\ Truthy(session_id) /\ bound_session # session_id

\* faulty variant: the locked section entered without the lock
acquire_unlocked(owner, t) == TRUE

\* faulty variant: a plain Lock, which its own holder cannot take again
acquire_not_reentrant(owner, t) == owner = None

\* RLock.acquire: free, or already held by the calling thread
acquire(owner, t) == owner \in {None, t}

\* faulty variant: the with-block ends without giving the lock up
release_keep(owner, t) == owner

\* the owner of the lock after thread t left its with-block
release(owner, t) == IF owner = t THEN None ELSE owner

\* faulty variant: the valid state is not deleted
consume_keep(states, state) == states

\* the table after the valid state is consumed (del self._oauth_states[state])
consume(states, state) == Del(states, state)

\* faulty variant: the mismatching state is not deleted
reject_mismatch_keep(states, state) == states

\* the table after a session mismatch (del self._oauth_states[state])
reject_mismatch(states, state) == Del(states, state)

\* faulty variant: the state file itself is opened for writing
target_truncated(target) == EmptyFile

\* the target file while the temp file is being made and written:
\* tempfile.mkstemp and json.dump touch the temp file only
target_during_write(target) == target

\* os.replace(temp_path, self._states_file_path)
target_after_replace(target, temp) == temp

\* keyword parameters store_oauth_state accepts
store_oauth_state_params == {"state", "session_id", "expires_in_seconds"}

\* keyword arguments start_auth_flow passes to store_oauth_state
start_auth_flow_kwargs == {"session_id", "code_verifier"}

TypeOK ==
    /\ now \in 0..MaxTime
    /\ lock \in Threads \cup {None}
    /\ disk_writable \in BOOLEAN
    /\ boots \in 0..MaxBoots
    /\ DOMAIN oauth_states \subseteq States

Init ==
    /\ now = 0
    /\ oauth_states = EmptyDict
    /\ lock = None
    /\ disk = NoFile
    /\ tmp = NoFile
    /\ disk_writable \in BOOLEAN
    /\ boots = 0
    /\ pc = [t \in Threads |-> "idle"]
    /\ call = [t \in Threads |-> NoCall]
    /\ result = [t \in Threads |-> NoResult]
    /\ uses = [s \in States |-> 0]
    /\ sessions = EmptyDict
    /\ session_mapping = EmptyDict
    /\ cred_files = EmptyDict
    /\ frame = [t \in Threads |-> NoFrame]
    /\ cred_dir = TRUE
    /\ listener = NoListener
    /\ search_cache = EmptyDict

\* ------------------------------------------------------------------ clock
Tick ==
    /\ now < MaxTime
    /\ now' = now + 1
    /\ UNCHANGED <<auxvars, storevars, oauth_states, lock, disk, tmp, disk_writable,
                   boots, pc, call, result, uses>>

\* ------------------------------------------------------ store_oauth_state
\* entry and argument checks (before the lock)
store_oauth_state(t, state, session_id, expires_in_seconds) ==
    /\ pc[t] = "idle"
    /\ call' = [call EXCEPT ![t] = [op |-> "store", state |-> state,
                                    session_id |-> session_id,
                                    ttl |-> expires_in_seconds]]
    /\ IF ~Truthy(state)
       THEN /\ result' = [result EXCEPT ![t] = Outcome("state_required")]
            /\ pc' = pc
       ELSE IF expires_in_seconds < 0
       THEN /\ result' = [result EXCEPT ![t] = Outcome("negative_ttl")]
            /\ pc' = pc
       ELSE /\ result' = [result EXCEPT ![t] = NoResult]
            /\ pc' = [pc EXCEPT ![t] = "store_lock"]
    /\ UNCHANGED <<auxvars, storevars, now, oauth_states, lock, disk, tmp, disk_writable, boots, uses>>

\* with self._lock: sweep, insert; then on to _save_oauth_states_to_disk
store_oauth_state_locked(t) ==
    /\ pc[t] = "store_lock"
    /\ acquire(lock, t)
    /\ lock' = t
    /\ oauth_states' =
          Put(cleanup_expired_oauth_states_locked(oauth_states, now),
              call[t].state,
              new_state_info(call[t].session_id, call[t].ttl, now))
    /\ uses' = [uses EXCEPT ![call[t].state] = 0]
    /\ result' = [result EXCEPT ![t] = Outcome("ok")]
    /\ pc' = [pc EXCEPT ![t] = "save_mkstemp"]
    /\ UNCHANGED <<auxvars, storevars, now, disk, tmp, disk_writable, boots, call>>

\* -------------------------------------------- _save_oauth_states_to_disk
\* tempfile.mkstemp(dir=target_dir, suffix=".tmp")
save_mkstemp(t) ==
    /\ pc[t] = "save_mkstemp"
    /\ disk_writable
    /\ tmp' = EmptyFile
    /\ disk' = target_during_write(disk)
    /\ pc' = [pc EXCEPT ![t] = "save_write"]
    /\ UNCHANGED <<auxvars, storevars, now, oauth_states, lock, disk_writable,
                   boots, call, result, uses>>

\* json.dump(serializable_data, f): one entry reaches the temp file
save_write(t) ==
    /\ pc[t] = "save_write"
    /\ \E s \in DOMAIN oauth_states \ DOMAIN tmp.entries :
          tmp' = [tmp EXCEPT !.entries =
                     Put(tmp.entries, s, serializable_data(oauth_states)[s])]
    /\ disk' = target_during_write(disk)
    /\ UNCHANGED <<auxvars, storevars, now, oauth_states, lock, disk_writable,
                   boots, pc, call, result, uses>>

\* the with-block closes the temp file: the JSON text is complete
save_close(t) ==
    /\ pc[t] = "save_write"
    /\ DOMAIN tmp.entries = DOMAIN oauth_states
    /\ tmp' = [tmp EXCEPT !.complete = TRUE]
    /\ disk' = target_during_write(disk)
    /\ pc' = [pc EXCEPT ![t] = "save_replace"]
    /\ UNCHANGED <<auxvars, storevars, now, oauth_states, lock, disk_writable,
                   boots, call, result, uses>>

\* os.replace(temp_path, self._states_file_path)
save_replace(t) ==
    /\ pc[t] = "save_replace"
    /\ disk' = target_after_replace(disk, tmp)
    /\ tmp' = NoFile
    /\ pc' = [pc EXCEPT ![t] = "return"]
    /\ UNCHANGED <<auxvars, storevars, now, oauth_states, lock, disk_writable,
                   boots, call, result, uses>>

\* faulty variant: a failed write takes the stored state out again
states_after_failed_save_rollback(states, c) ==
    IF c.op = "store" THEN Del(states, c.state) ELSE states

\* _oauth_states after the except branches of _save_oauth_states_to_disk
states_after_failed_save(states, c) == states

\* an I/O error in mkstemp, json.dump or os.replace: the temp file is
\* unlinked, the error is logged, the in-memory table is kept
save_fail(t) ==
    /\ pc[t] \in {"save_mkstemp", "save_write", "save_replace"}
    /\ ~disk_writable
    /\ tmp' = NoFile
    /\ oauth_states' = states_after_failed_save(oauth_states, call[t])
    /\ pc' = [pc EXCEPT ![t] = "return"]
    /\ UNCHANGED <<auxvars, storevars, now, lock, disk, disk_writable,
                   boots, call, result, uses>>

\* --------------------------------------- validate_and_consume_oauth_state
\* entry and argument check (before the lock)
validate_and_consume_oauth_state(t, state, session_id) ==
    /\ pc[t] = "idle"
    /\ call' = [call EXCEPT ![t] = [op |-> "validate", state |-> state,
                                    session_id |-> session_id, ttl |-> 0]]
    /\ IF ~Truthy(state)
       THEN /\ result' = [result EXCEPT ![t] = Outcome("missing_state")]
            /\ pc' = pc
       ELSE /\ result' = [result EXCEPT ![t] = NoResult]
            /\ pc' = [pc EXCEPT ![t] = "validate_lock"]
    /\ UNCHANGED <<auxvars, storevars, now, oauth_states, lock, disk, tmp, disk_writable, boots, uses>>

\* with self._lock: sweep, then state_info = self._oauth_states.get(state);
\* an unknown state raises "Invalid or expired OAuth state parameter"
validate_lookup(t) ==
    /\ pc[t] = "validate_lock"
    /\ acquire(lock, t)
    /\ LET swept == cleanup_expired_oauth_states_locked(oauth_states, now)
       IN  /\ oauth_states' = swept
           /\ IF call[t].state \notin DOMAIN swept
              THEN /\ result' = [result EXCEPT ![t] = Outcome("invalid_or_expired")]
                   /\ pc' = [pc EXCEPT ![t] = "idle"]
                   /\ lock' = IF lock = t THEN None ELSE lock
              ELSE /\ result' = [result EXCEPT ![t] =
                                   [outcome |-> "found", info |-> swept[call[t].state]]]
                   /\ pc' = [pc EXCEPT ![t] = "validate_check"]
                   /\ lock' = t
    /\ UNCHANGED <<auxvars, storevars, now, disk, tmp, disk_writable, boots, call, uses>>

\* the session check, then del self._oauth_states[state] on either branch
\* (del of a key that is gone raises KeyError out of the with-block)
validate_consume(t) ==
    /\ pc[t] = "validate_check"
    /\ IF call[t].state \notin DOMAIN oauth_states
       THEN /\ oauth_states' = oauth_states
            /\ result' = [result EXCEPT ![t] = Outcome("key_error")]
            /\ pc' = [pc EXCEPT ![t] = "return"]
       ELSE IF session_mismatch(result[t].info, call[t].session_id)
       THEN /\ oauth_states' = reject_mismatch(oauth_states, call[t].state)
            /\ result' = [result EXCEPT ![t] = Outcome("session_mismatch")]
            /\ pc' = [pc EXCEPT ![t] = "save_mkstemp"]
       ELSE /\ oauth_states' = consume(oauth_states, call[t].state)
            /\ result' = [result EXCEPT ![t].outcome = "ok"]
            /\ pc' = [pc EXCEPT ![t] = "save_mkstemp"]
    /\ UNCHANGED <<auxvars, storevars, now, lock, disk, tmp, disk_writable, boots, call, uses>>

\* the with-block ends: the lock is released and the call returns or raises
return_from_store(t) ==
    /\ pc[t] = "return"
    /\ lock' = release(lock, t)
    /\ uses' = IF call[t].op \in {"validate", "callback"} /\ result[t].outcome = "ok"
               THEN [uses EXCEPT ![call[t].state] = @ + 1]
               ELSE uses
    /\ pc' = [pc EXCEPT ![t] =
                IF call[t].op = "callback" /\ result[t].outcome = "ok"
                THEN "callback_verifier" ELSE "idle"]
    /\ result' = IF call[t].op = "start"
                 THEN [result EXCEPT ![t] = Outcome("message")]
                 ELSE result
    /\ UNCHANGED <<auxvars, storevars, now, oauth_states, disk, tmp, disk_writable,
                   boots, call>>

\* -------------------------------------------------------- start_auth_flow
\* os.urandom(16).hex() is `oauth_state`; the flow generates the verifier
start_auth_flow(t, oauth_state, client_configured) ==
    /\ pc[t] = "idle"
    /\ call' = [call EXCEPT ![t] = [op |-> "start", state |-> oauth_state,
                                    session_id |-> None, ttl |-> DefaultExpiresIn]]
    /\ IF ~client_configured
       THEN \* create_oauth_flow raises FileNotFoundError
            /\ result' = [result EXCEPT ![t] = Outcome("credentials_not_found")]
            /\ pc' = pc
       ELSE IF ~(start_auth_flow_kwargs \subseteq store_oauth_state_params)
       THEN \* TypeError: unexpected keyword argument, wrapped by except Exception
            /\ result' = [result EXCEPT ![t] = Outcome("could_not_initiate")]
            /\ pc' = pc
       ELSE /\ result' = [result EXCEPT ![t] = NoResult]
            /\ pc' = [pc EXCEPT ![t] = "store_lock"]
    /\ UNCHANGED <<auxvars, storevars, now, oauth_states, lock, disk, tmp, disk_writable, boots, uses>>

\* --------------------------------------------------- handle_auth_callback
\* parse `state` from the callback URL, then validate and consume it
handle_auth_callback(t, state, session_id) ==
    /\ pc[t] = "idle"
    /\ call' = [call EXCEPT ![t] = [op |-> "callback", state |-> state,
                                    session_id |-> session_id, ttl |-> 0]]
    /\ IF ~Truthy(state)
       THEN /\ result' = [result EXCEPT ![t] = Outcome("missing_state")]
            /\ pc' = pc
       ELSE /\ result' = [result EXCEPT ![t] = NoResult]
            /\ pc' = [pc EXCEPT ![t] = "validate_lock"]
    /\ frame' = [frame EXCEPT ![t] = NoFrame]
    /\ UNCHANGED <<auxvars, sessions, session_mapping, cred_files>>
    /\ UNCHANGED <<now, oauth_states, lock, disk, tmp, disk_writable, boots, uses>>

\* faulty variant: the callback goes on without a verifier
verifier_missing_never(state_info) == FALSE

\* if not code_verifier
verifier_missing(state_info) == ~Truthy(Get(state_info, "code_verifier"))

\* code_verifier = state_info.get("code_verifier"); a missing one is fatal
callback_verifier(t) ==
    /\ pc[t] = "callback_verifier"
    /\ IF verifier_missing(result[t].info)
       THEN /\ result' = [result EXCEPT ![t] = Outcome("missing_code_verifier")]
            /\ pc' = [pc EXCEPT ![t] = "idle"]
            /\ frame' = frame
       ELSE \* on to create_oauth_flow and flow.fetch_token
            /\ result' = result
            /\ pc' = [pc EXCEPT ![t] = "callback_exchange"]
            /\ frame' = [frame EXCEPT ![t] =
                            [code_verifier |-> Get(result[t].info, "code_verifier"),
                             fetch_token_called |-> FALSE,
                             credentials |-> NoCredentials,
                             user_email |-> None]]
    /\ UNCHANGED <<auxvars, sessions, session_mapping, cred_files>>
    /\ UNCHANGED <<now, oauth_states, lock, disk, tmp, disk_writable, boots, call, uses>>

\* ---------------------------------------------------------------- restart
\* the process stops (anywhere) and a new OAuth21SessionStore is constructed
\* on the same file: __init__ then _load_oauth_states_from_disk
Restart ==
    /\ boots < MaxBoots
    /\ boots' = boots + 1
    /\ oauth_states' = load_oauth_states_from_disk(disk, now)
    /\ lock' = None
    /\ pc' = [t \in Threads |-> "idle"]
    /\ call' = [t \in Threads |-> NoCall]
    /\ result' = [t \in Threads |-> NoResult]
    /\ uses' = [s \in States |-> 0]
    /\ tmp' = NoFile   \* a leftover temp file is never read again
    /\ sessions' = EmptyDict
    /\ session_mapping' = EmptyDict
    /\ frame' = [t \in Threads |-> NoFrame]
    /\ listener' = [NoListener EXCEPT !.port_taken = listener.port_taken]
    /\ search_cache' = EmptyDict
    /\ UNCHANGED <<now, disk, disk_writable, cred_files, cred_dir>>

Next ==
    \/ Tick
    \/ Restart
    \/ \E t \in Clients, s \in States \cup {EmptyStr},
          sid \in SessionIds \cup {None}, ttl \in ExpiresIn :
          store_oauth_state(t, s, sid, ttl)
    \/ \E t \in Clients, s \in States \cup {EmptyStr}, sid \in SessionIds \cup {None} :
          validate_and_consume_oauth_state(t, s, sid)
    \/ \E t \in Clients, s \in States, configured \in BOOLEAN :
          start_auth_flow(t, s, configured)
    \/ \E t \in Clients, s \in States \cup {EmptyStr}, sid \in SessionIds \cup {None} :
          handle_auth_callback(t, s, sid)
    \/ \E t \in Clients :
          \/ store_oauth_state_locked(t)
          \/ validate_lookup(t)
          \/ validate_consume(t)
          \/ save_mkstemp(t)
          \/ save_write(t)
          \/ save_close(t)
          \/ save_replace(t)
          \/ save_fail(t)
          \/ return_from_store(t)
          \/ callback_verifier(t)

Spec == Init /\ [][Next]_vars

\* ------------------------------------------------- two concurrent callers
\* The store right after store_oauth_state(OtherState) and
\* store_oauth_state(RaceState, sid) returned at instant 0; then each thread
\* makes one validate_and_consume_oauth_state call.
RaceState == "abc123"
OtherState == "xyz789"

RaceTable(sid) ==
    Put(Put(EmptyDict, OtherState, new_state_info(None, DefaultExpiresIn, 0)),
        RaceState, new_state_info(sid, DefaultExpiresIn, 0))

RaceInit ==
    \E sid \in SessionIds \cup {None}, writable \in BOOLEAN :
        /\ now = 0
        /\ oauth_states = RaceTable(sid)
        /\ disk_writable = writable
        /\ disk = IF writable
                  THEN [exists |-> TRUE,
                        entries |-> serializable_data(RaceTable(sid)),
                        complete |-> TRUE]
                  ELSE NoFile
        /\ lock = None
        /\ tmp = NoFile
        /\ boots = 0
        /\ pc = [t \in Threads |-> "idle"]
        /\ call = [t \in Threads |-> NoCall]
        /\ result = [t \in Threads |-> NoResult]
        /\ uses = [s \in States |-> 0]
        /\ sessions = EmptyDict
        /\ session_mapping = EmptyDict
        /\ cred_files = EmptyDict
        /\ frame = [t \in Threads |-> NoFrame]
        /\ cred_dir = TRUE
        /\ listener = NoListener
        /\ search_cache = EmptyDict

RaceCall(t, state, session_id) ==
    /\ call[t].op = "none"
    /\ validate_and_consume_oauth_state(t, state, session_id)

RaceNext ==
    \/ Tick
    \/ \E t \in Threads, s \in States, sid \in SessionIds \cup {None} :
          RaceCall(t, s, sid)
    \/ \E t \in Threads :
          \/ validate_lookup(t)
          \/ validate_consume(t)
          \/ save_mkstemp(t)
          \/ save_write(t)
          \/ save_close(t)
          \/ save_replace(t)
          \/ save_fail(t)
          \/ return_from_store(t)

SpecRace == RaceInit /\ [][RaceNext]_vars

\* ------------------------------------------------------------ properties
Returned(t, op) == call[t].op = op /\ pc[t] = "idle" /\ result[t].outcome # "none"

\* a step of thread t out of position p that is not a restart
StepFrom(t, p) == pc[t] = p /\ pc'[t] # p /\ boots' = boots

DiskTable == [exists |-> TRUE, entries |-> serializable_data(oauth_states),
              complete |-> TRUE]

\* C1: single use. No state is validated successfully more than once per
\* issuance, and once a validation of s has succeeded, a validation of s
\* raises "Invalid or expired OAuth state parameter" until s is stored again.
C1_SingleUse ==
    /\ [](\A s \in States : uses[s] <= 1)
    /\ [](\A s \in States : uses[s] = 1 => s \notin DOMAIN oauth_states)
    /\ [][\A t \in Threads :
            (StepFrom(t, "validate_lock") /\ uses[call[t].state] = 1)
            => (result'[t].outcome = "invalid_or_expired" /\ pc'[t] = "idle")]_vars

C1_Witness ==
    \E t \in Threads :
        /\ Returned(t, "validate")
        /\ result[t].outcome = "invalid_or_expired"
        /\ uses[call[t].state] = 1

\* C2: atomic consumption. Two threads validating the same live state never
\* both succeed; when neither presents a mismatching session id and the
\* state has not expired, exactly one returns the metadata and the other
\* raises "Invalid or expired OAuth state parameter".
C2_AtomicConsumption ==
    \A t1, t2 \in Threads :
        (t1 # t2 /\ call[t1].state = RaceState /\ call[t2].state = RaceState)
        => /\ ~(result[t1].outcome = "ok" /\ result[t2].outcome = "ok")
           /\ ( /\ Returned(t1, "validate") /\ Returned(t2, "validate")
                /\ result[t1].outcome # "session_mismatch"
                /\ result[t2].outcome # "session_mismatch"
                /\ now < DefaultExpiresIn )
              => \/ /\ result[t1].outcome = "ok"
                    /\ result[t2].outcome = "invalid_or_expired"
                 \/ /\ result[t2].outcome = "ok"
                    /\ result[t1].outcome = "invalid_or_expired"

C2_Witness ==
    \E t1, t2 \in Threads :
        /\ t1 # t2
        /\ Returned(t1, "validate") /\ Returned(t2, "validate")
        /\ call[t1].state = RaceState /\ call[t2].state = RaceState
        /\ result[t1].outcome = "ok"
        /\ result[t1].info.expires_at = DefaultExpiresIn
        /\ result[t2].outcome = "invalid_or_expired"
        /\ now < DefaultExpiresIn

\* C3: the metadata a successful validate_and_consume_oauth_state returns
\* contains the PKCE code verifier registered with the state.
C3_VerifierReturned ==
    \A t \in Threads :
        (Returned(t, "validate") /\ result[t].outcome = "ok")
        => Truthy(Get(result[t].info, "code_verifier"))

\* C4: a state whose expiry is at or before the instant of the lookup
\* (expires_in_seconds = 0 included) is rejected with "Invalid or expired
\* OAuth state parameter" and never returned.
C4_ExpiredRejected ==
    [][\A t \in Threads :
        ( /\ StepFrom(t, "validate_lock")
          /\ call[t].state \in DOMAIN oauth_states
          /\ oauth_states[call[t].state].expires_at <= now )
        => (result'[t].outcome = "invalid_or_expired" /\ pc'[t] = "idle")]_vars

\* a state stored with expires_in_seconds = 0 was persisted, then swept and
\* rejected by the validation that just returned
C4_Witness ==
    \E t \in Threads :
        /\ Returned(t, "validate")
        /\ result[t].outcome = "invalid_or_expired"
        /\ call[t].state \notin DOMAIN oauth_states
        /\ disk.exists /\ call[t].state \in DOMAIN disk.entries
        /\ disk.entries[call[t].state].expires_at = disk.entries[call[t].state].created_at
        /\ fromisoformat(disk.entries[call[t].state].expires_at) = now

\* C5: a validation that presents a session id different from the bound one
\* raises the session-mismatch error and removes the state (from memory and,
\* when the disk is writable, from the file); validating an absent state
\* raises "Invalid or expired OAuth state parameter".
C5_MismatchDestroys ==
    /\ [](\A t \in Threads :
            result[t].outcome = "session_mismatch"
            => /\ call[t].state \notin DOMAIN oauth_states
               /\ (pc[t] = "idle" /\ disk_writable)
                  => call[t].state \notin DOMAIN disk.entries)
    /\ [][\A t \in Threads :
            /\ ( /\ StepFrom(t, "validate_check")
                 /\ Truthy(Get(result[t].info, "session_id"))
                 /\ Truthy(call[t].session_id)
                 /\ Get(result[t].info, "session_id") # call[t].session_id )
               => result'[t].outcome = "session_mismatch"
            /\ ( /\ StepFrom(t, "validate_lock")
                 /\ call[t].state \notin DOMAIN oauth_states )
               => (result'[t].outcome = "invalid_or_expired" /\ pc'[t] = "idle")]_vars

C5_Witness ==
    \E t \in Threads :
        /\ Returned(t, "validate")
        /\ result[t].outcome = "session_mismatch"
        /\ disk_writable
        /\ now < MaxTime

\* C6: a store constructed on the state file when no operation is in
\* progress and disk writes succeed holds exactly the states that were
\* pending and not yet expired at that instant.
C6_RestartKeepsLive ==
    [][(boots' = boots + 1 /\ lock = None /\ disk_writable)
       => oauth_states' = cleanup_expired_oauth_states_locked(oauth_states, now)]_vars

\* a fresh instance holding a survivor while the file also names a state
\* that was swept on load
C6_Witness ==
    /\ boots = 1
    /\ \A t \in Threads : call[t] = NoCall
    /\ DOMAIN oauth_states # {}
    /\ DOMAIN disk.entries \ DOMAIN oauth_states # {}

\* C7: after a restart, handle_auth_callback on a state loaded from the
\* file is not rejected for a missing PKCE verifier.
C7_FlowSurvivesRestart ==
    \A t \in Threads :
        (boots > 0 /\ Returned(t, "callback"))
        => result[t].outcome # "missing_code_verifier"

\* C8: the state file is never partially written: it changes only by being
\* replaced, in one step, with the complete serialized table.
C8_AtomicPersistence ==
    /\ [](disk.exists => disk.complete)
    /\ [][disk' # disk => disk' = DiskTable]_vars

\* a save is under way: the temp file is partial, the state file still
\* holds the complete previous table
C8_Witness ==
    \E t \in Threads :
        /\ pc[t] = "save_write"
        /\ tmp.exists /\ ~tmp.complete /\ DOMAIN tmp.entries # {}
        /\ DOMAIN tmp.entries # DOMAIN oauth_states
        /\ disk.exists /\ disk # DiskTable

\* C9: when store_oauth_state or validate_and_consume_oauth_state has
\* finished (returned, or raised from inside the locked section) and disk
\* writes succeed, the file names exactly the states of the in-memory table.
C9_WriteThrough ==
    \A t \in Threads :
        ( /\ Returned(t, "store") \/ Returned(t, "validate")
          /\ result[t].outcome \in {"ok", "invalid_or_expired", "session_mismatch"}
          /\ disk_writable
          /\ boots = 0 )
        => DOMAIN disk.entries = DOMAIN oauth_states

\* C10: with client credentials configured, start_auth_flow returns the
\* authorization message and has registered its state in the store.
C10_StartRegisters ==
    \A t \in Threads :
        (Returned(t, "start") /\ result[t].outcome # "credentials_not_found")
        => /\ result[t].outcome = "message"
           /\ call[t].state \in DOMAIN oauth_states

\* =================================================== credentials and sessions
Emails == {"ann@example.com", "bob@example.com"}

DriveScope == "drive"
DocsScope == "docs"

\* expiry=None; every other expiry is a naive UTC datetime on the clock
NoExpiry == -1

\* token_uri: str = "https://oauth2.googleapis.com/token"
DefaultTokenUri == "https://oauth2.googleapis.com/token"

\* google.oauth2.credentials.Credentials(token=..., ..., expiry=...);
\* scopes is a set, the empty set standing for both None and []
Credentials(token, refresh_token, token_uri, client_id, client_secret, scopes, expiry) ==
    [token |-> token, refresh_token |-> refresh_token, token_uri |-> token_uri,
     client_id |-> client_id, client_secret |-> client_secret,
     scopes |-> scopes, expiry |-> expiry]

\* _normalize_expiry_to_naive_utc on None and on naive datetimes
normalize_expiry_to_naive_utc(expiry) ==
    IF expiry = NoExpiry THEN NoExpiry ELSE expiry

\* the session_info dict built by store_session
session_info(c, session_id) ==
    [access_token |-> c.token, refresh_token |-> c.refresh_token,
     token_uri |-> c.token_uri, client_id |-> c.client_id,
     client_secret |-> c.client_secret, scopes |-> c.scopes,
     expiry |-> normalize_expiry_to_naive_utc(c.expiry),
     session_id |-> session_id]

\* faulty variant: an existing session is kept (setdefault)
store_session_table_keep_first(tbl, user_email, info) ==
    IF user_email \in DOMAIN tbl THEN tbl ELSE Put(tbl, user_email, info)

\* self._sessions[user_email] = session_info
store_session_table(tbl, user_email, info) == Put(tbl, user_email, info)

\* if session_id: self._session_mapping[session_id] = user_email
store_session_mapping(map, session_id, user_email) ==
    IF Truthy(session_id) THEN Put(map, session_id, user_email) ELSE map

\* OAuth21SessionStore.get_credentials: the Credentials built from a session
credentials_of_session(tbl, user_email) ==
    IF user_email \notin DOMAIN tbl
    THEN NoCredentials
    ELSE Credentials(tbl[user_email].access_token, tbl[user_email].refresh_token,
                     tbl[user_email].token_uri, tbl[user_email].client_id,
                     tbl[user_email].client_secret, tbl[user_email].scopes,
                     tbl[user_email].expiry)

\* OAuth21SessionStore.get_user_by_session
user_of_session_id(map, session_id) == Get(map, session_id)

\* OAuth21SessionStore.get_credentials_by_session
credentials_of_session_id(tbl, map, session_id) ==
    IF ~Truthy(Get(map, session_id))
    THEN NoCredentials
    ELSE credentials_of_session(tbl, Get(map, session_id))

\* user_email in self._sessions
session_exists(tbl, user_email) == user_email \in DOMAIN tbl

\* faulty variant: the first email whenever there is any session
single_user_email_any(tbl) ==
    IF Cardinality(DOMAIN tbl) >= 1 THEN CHOOSE e \in DOMAIN tbl : TRUE ELSE None

\* OAuth21SessionStore.get_single_user_email
single_user_email(tbl) ==
    IF Cardinality(DOMAIN tbl) = 1 THEN CHOOSE e \in DOMAIN tbl : TRUE ELSE None

\* remove_session: del self._sessions[user_email]
remove_session_table(tbl, user_email) ==
    IF user_email \in DOMAIN tbl THEN Del(tbl, user_email) ELSE tbl

\* faulty variant: the mapping is left alone
remove_session_mapping_keep(tbl, map, user_email) == map

\* remove_session: del self._session_mapping[session_id] for the recorded id
remove_session_mapping(tbl, map, user_email) ==
    IF user_email \in DOMAIN tbl
          /\ Truthy(tbl[user_email].session_id)
          /\ tbl[user_email].session_id \in DOMAIN map
    THEN Del(map, tbl[user_email].session_id)
    ELSE map

flowvars == <<now, oauth_states, lock, disk, tmp, disk_writable, boots, uses>>

StoreCall(op, session_id) ==
    [op |-> op, state |-> EmptyStr, session_id |-> session_id, ttl |-> 0]

\* what callers pass to store_session in this model
SessionCredentials ==
    { Credentials("at1", "rt1", DefaultTokenUri, "cid", "secret", {DriveScope}, 1),
      Credentials("at2", None, DefaultTokenUri, "cid", "secret", {}, NoExpiry) }

store_session(t, user_email, c, session_id) ==
    /\ pc[t] = "idle" /\ lock = None
    /\ call' = [call EXCEPT ![t] = StoreCall("store_session", session_id)]
    /\ frame' = [frame EXCEPT ![t] = [user_email |-> user_email, credentials |-> c]]
    /\ sessions' = store_session_table(sessions, user_email, session_info(c, session_id))
    /\ session_mapping' = store_session_mapping(session_mapping, session_id, user_email)
    /\ result' = [result EXCEPT ![t] = Outcome(None)]
    /\ UNCHANGED <<auxvars, flowvars, pc, cred_files>>

remove_session(t, user_email) ==
    /\ pc[t] = "idle" /\ lock = None
    /\ call' = [call EXCEPT ![t] =
                   StoreCall("remove_session",
                             IF user_email \in DOMAIN sessions
                             THEN sessions[user_email].session_id ELSE None)]
    /\ frame' = [frame EXCEPT ![t] = [user_email |-> user_email,
                                      had_session |-> user_email \in DOMAIN sessions]]
    /\ sessions' = remove_session_table(sessions, user_email)
    /\ session_mapping' = remove_session_mapping(sessions, session_mapping, user_email)
    /\ result' = [result EXCEPT ![t] = Outcome(None)]
    /\ UNCHANGED <<auxvars, flowvars, pc, cred_files>>

store_get_credentials(t, user_email) ==
    /\ pc[t] = "idle" /\ lock = None
    /\ call' = [call EXCEPT ![t] = StoreCall("store_get_credentials", None)]
    /\ frame' = [frame EXCEPT ![t] = [user_email |-> user_email]]
    /\ result' = [result EXCEPT ![t] =
                     [outcome |-> "credentials",
                      info |-> credentials_of_session(sessions, user_email)]]
    /\ UNCHANGED <<auxvars, flowvars, pc, sessions, session_mapping, cred_files>>

get_credentials_by_session(t, session_id) ==
    /\ pc[t] = "idle" /\ lock = None
    /\ call' = [call EXCEPT ![t] = StoreCall("get_credentials_by_session", session_id)]
    /\ frame' = [frame EXCEPT ![t] = NoFrame]
    /\ result' = [result EXCEPT ![t] =
                     [outcome |-> "credentials",
                      info |-> credentials_of_session_id(sessions, session_mapping,
                                                         session_id)]]
    /\ UNCHANGED <<auxvars, flowvars, pc, sessions, session_mapping, cred_files>>

get_user_by_session(t, session_id) ==
    /\ pc[t] = "idle" /\ lock = None
    /\ call' = [call EXCEPT ![t] = StoreCall("get_user_by_session", session_id)]
    /\ frame' = [frame EXCEPT ![t] = NoFrame]
    /\ result' = [result EXCEPT ![t] =
                     Outcome(user_of_session_id(session_mapping, session_id))]
    /\ UNCHANGED <<auxvars, flowvars, pc, sessions, session_mapping, cred_files>>

has_session(t, user_email) ==
    /\ pc[t] = "idle" /\ lock = None
    /\ call' = [call EXCEPT ![t] = StoreCall("has_session", None)]
    /\ frame' = [frame EXCEPT ![t] = [user_email |-> user_email]]
    /\ result' = [result EXCEPT ![t] =
                     Outcome(IF session_exists(sessions, user_email)
                             THEN "True" ELSE "False")]
    /\ UNCHANGED <<auxvars, flowvars, pc, sessions, session_mapping, cred_files>>

get_single_user_email(t) ==
    /\ pc[t] = "idle" /\ lock = None
    /\ call' = [call EXCEPT ![t] = StoreCall("get_single_user_email", None)]
    /\ frame' = [frame EXCEPT ![t] = NoFrame]
    /\ result' = [result EXCEPT ![t] = Outcome(single_user_email(sessions))]
    /\ UNCHANGED <<auxvars, flowvars, pc, sessions, session_mapping, cred_files>>

\* a fresh store, then any sequence of session calls by one client
SessionInit == Init /\ disk_writable

SessionNext ==
    \E t \in Clients :
        \/ \E e \in Emails, c \in SessionCredentials, sid \in SessionIds \cup {None} :
               store_session(t, e, c, sid)
        \/ \E e \in Emails : remove_session(t, e)
        \/ \E e \in Emails : store_get_credentials(t, e)
        \/ \E sid \in SessionIds : get_credentials_by_session(t, sid)
        \/ \E sid \in SessionIds : get_user_by_session(t, sid)
        \/ \E e \in Emails : has_session(t, e)
        \/ get_single_user_email(t)

SpecSession == SessionInit /\ [][SessionNext]_vars

\* ========================================================== credential store

\* _email_to_filename / _filename_to_email: URL-safe base64 of the email
email_to_filename(user_email) == <<"b64", user_email>>
filename_to_email(filename) == filename[2]

\* JSON null in a credential file
JsonNull == <<"null", NoExpiry>>

\* a file opened for writing whose json.dump failed
TruncatedFile == [truncated |-> TRUE]

\* creds_data written by store_credential
creds_data(c) ==
    [token |-> c.token, refresh_token |-> c.refresh_token, token_uri |-> c.token_uri,
     client_id |-> c.client_id, client_secret |-> c.client_secret,
     scopes |-> c.scopes,
     expiry |-> IF c.expiry # NoExpiry THEN isoformat(c.expiry) ELSE JsonNull]

\* LocalDirectoryCredentialStore.get_credential
file_get_credential(files, user_email) ==
    IF email_to_filename(user_email) \notin DOMAIN files
    THEN NoCredentials
    ELSE IF files[email_to_filename(user_email)] = TruncatedFile
    THEN NoCredentials                      \* json.JSONDecodeError, logged
    ELSE LET data == files[email_to_filename(user_email)]
         IN  Credentials(data.token, data.refresh_token, data.token_uri,
                         data.client_id, data.client_secret, data.scopes,
                         IF data.expiry # JsonNull
                         THEN fromisoformat(data.expiry) ELSE NoExpiry)

\* LocalDirectoryCredentialStore.store_credential; an IOError leaves the file
\* as it was and is reported by the return value only
file_store_credential(files, user_email, c, writable) ==
    IF writable THEN Put(files, email_to_filename(user_email), creds_data(c)) ELSE files

\* the emails of the model in the order of Python's str comparison
str_order == <<"a@b.com", "ann@example.com", "bob@example.com">>

\* a < b on str
str_less(a, b) ==
    \E i, j \in DOMAIN str_order : str_order[i] = a /\ str_order[j] = b /\ i < j

\* one element put at its place in a sorted list
RECURSIVE insort(_, _)
insort(sorted_list, x) ==
    IF sorted_list = <<>> THEN <<x>>
    ELSE IF str_less(x, Head(sorted_list)) THEN <<x>> \o sorted_list
    ELSE <<Head(sorted_list)>> \o insort(Tail(sorted_list), x)

\* faulty variant: the list is returned in directory order
sorted_not(users) == users

\* sorted(users)
RECURSIVE sorted(_)
sorted(users) ==
    IF users = <<>> THEN <<>>
    ELSE insort(sorted(SubSeq(users, 1, Len(users) - 1)), users[Len(users)])

\* os.listdir(base_dir): the *.json files in any order
listdir(files) ==
    {l \in [1..Cardinality(DOMAIN files) -> DOMAIN files] :
        \A i, j \in DOMAIN l : l[i] = l[j] => i = j}

\* list_users on one directory listing
list_users_in(listing) ==
    sorted([i \in DOMAIN listing |-> filename_to_email(listing[i])])

\* LocalDirectoryCredentialStore.list_users
list_users(files) == list_users_in(CHOOSE l \in listdir(files) : TRUE)

\* ------------------------------------------------ google_auth.get_credentials

\* Credentials.expired and Credentials.valid of google-auth
expired(c, time) == c.expiry # NoExpiry /\ time >= c.expiry
valid(c, time) == Truthy(c.token) /\ ~expired(c, time)

\* the scope check: skipped when the credential's scopes are empty or None
lacks_required_scopes(c, required_scopes) ==
    c.scopes # {} /\ ~(required_scopes \subseteq c.scopes)

\* faulty variant: the first stored user is taken whenever there is one
single_stored_user_first(users) == Len(users) >= 1

\* if len(users) == 1
single_stored_user(users) == Len(users) = 1

NoLookup == [credentials |-> NoCredentials, user_email |-> None,
             owner |-> None, consulted |-> FALSE]

\* one lookup of the resolution; user_email is the local variable so far
lookup(step, tbl, map, files, user_email, session_id) ==
    LET single_user == single_user_email(tbl)
        stored_users == list_users(files)
        found(c, email, owner) ==
            [credentials |-> c,
             user_email |-> IF c # NoCredentials THEN email ELSE user_email,
             owner |-> owner, consulted |-> TRUE]
    IN  CASE step = "session_id" ->
               IF Truthy(session_id)
               THEN found(credentials_of_session_id(tbl, map, session_id),
                          user_email, Get(map, session_id))
               ELSE NoLookup
          [] step = "email_session" ->
               IF Truthy(user_email)
               THEN found(credentials_of_session(tbl, user_email), user_email, user_email)
               ELSE NoLookup
          [] step = "email_file" ->
               IF Truthy(user_email)
               THEN found(file_get_credential(files, user_email), user_email, user_email)
               ELSE NoLookup
          [] step = "single_session" ->
               IF Truthy(single_user)
               THEN found(credentials_of_session(tbl, single_user), single_user, single_user)
               ELSE NoLookup
          [] step = "single_session_file" ->
               IF Truthy(single_user)
               THEN found(file_get_credential(files, single_user), single_user, single_user)
               ELSE NoLookup
          [] step = "single_file" ->
               IF single_stored_user(stored_users)
               THEN LET u == stored_users[1]
                    IN  found(file_get_credential(files, u), u, u)
               ELSE NoLookup

\* faulty variant: the explicit identity is tried before the session id
resolution_order_email_first ==
    <<"email_session", "email_file", "session_id",
      "single_session", "single_session_file", "single_file">>

\* the order of the lookups in get_credentials
resolution_order ==
    <<"session_id", "email_session", "email_file",
      "single_session", "single_session_file", "single_file">>

\* the chain of "if not credentials" blocks, from lookup i on
RECURSIVE resolve_from(_, _, _, _, _, _, _)
resolve_from(i, acc, order, tbl, map, files, session_id) ==
    IF i > Len(order) \/ acc.credentials # NoCredentials
    THEN acc
    ELSE LET r == lookup(order[i], tbl, map, files, acc.user_email, session_id)
         IN  resolve_from(i + 1,
                          [credentials |-> r.credentials,
                           user_email |-> IF r.consulted THEN r.user_email
                                          ELSE acc.user_email,
                           owner |-> r.owner,
                           consulted |-> IF r.consulted
                                         THEN acc.consulted \cup {order[i]}
                                         ELSE acc.consulted],
                          order, tbl, map, files, session_id)

resolve(tbl, map, files, user_email, session_id) ==
    resolve_from(1, [credentials |-> NoCredentials, user_email |-> user_email,
                     owner |-> None, consulted |-> {}],
                 resolution_order, tbl, map, files, session_id)

\* faulty variant: a refresh that leaves the old expiry in place
refreshed_credentials_old_expiry(c, time) ==
    [c EXCEPT !.token = "at-refreshed"]

\* what credentials.refresh(Request()) leaves in the object on success
refreshed_credentials(c, time) ==
    [c EXCEPT !.token = "at-refreshed", !.expiry = time + 1]

\* faulty variant: the credential is handed out although the refresh failed
credentials_after_failed_refresh_stale(c) == c

\* except RefreshError / except Exception: return None
credentials_after_failed_refresh(c) == NoCredentials

RefreshOutcomes == {"ok", "RefreshError", "Exception"}

get_credentials(t, user_email, required_scopes, session_id) ==
    /\ pc[t] = "idle" /\ call[t].op = "none"
    /\ lock = None
    /\ LET r == resolve(sessions, session_mapping, cred_files, user_email, session_id)
           c == r.credentials
       IN  /\ call' = [call EXCEPT ![t] = StoreCall("get_credentials", session_id)]
           /\ frame' = [frame EXCEPT ![t] =
                           [arg_email |-> user_email, required_scopes |-> required_scopes,
                            user_email |-> r.user_email, credentials |-> c,
                            owner |-> r.owner, consulted |-> r.consulted,
                            refreshed |-> FALSE]]
           /\ IF c = NoCredentials
              THEN /\ result' = [result EXCEPT ![t] = Outcome("no_credentials")]
                   /\ pc' = pc
              ELSE IF lacks_required_scopes(c, required_scopes)
              THEN /\ result' = [result EXCEPT ![t] = Outcome("lack_scopes")]
                   /\ pc' = pc
              ELSE IF valid(c, now)
              THEN /\ result' = [result EXCEPT ![t] = [outcome |-> "credentials", info |-> c]]
                   /\ pc' = pc
              ELSE IF expired(c, now) /\ Truthy(c.refresh_token)
              THEN /\ result' = [result EXCEPT ![t] = NoResult]
                   /\ pc' = [pc EXCEPT ![t] = "refresh"]
              ELSE /\ result' = [result EXCEPT ![t] = Outcome("cannot_refresh")]
                   /\ pc' = pc
    /\ UNCHANGED <<auxvars, flowvars, sessions, session_mapping, cred_files>>

\* credentials.refresh(Request()): a call to the provider
refresh(t, outcome) ==
    /\ pc[t] = "refresh"
    /\ IF outcome = "ok"
       THEN /\ frame' = [frame EXCEPT ![t].credentials =
                            refreshed_credentials(frame[t].credentials, now),
                                      ![t].refreshed = TRUE]
            /\ pc' = [pc EXCEPT ![t] = "write_back"]
            /\ result' = result
       ELSE /\ frame' = frame
            /\ pc' = [pc EXCEPT ![t] = "idle"]
            /\ result' = [result EXCEPT ![t] =
                   [outcome |-> outcome,
                    info |-> credentials_after_failed_refresh(frame[t].credentials)]]
    /\ UNCHANGED <<auxvars, flowvars, call, sessions, session_mapping, cred_files>>

\* "Update stored credentials", then return credentials
write_back(t) ==
    /\ pc[t] = "write_back"
    /\ LET c == frame[t].credentials
           user_email == frame[t].user_email
       IN  IF Truthy(user_email)
           THEN /\ lock = None
                /\ cred_files' = file_store_credential(cred_files, user_email, c,
                                                       disk_writable)
                /\ sessions' = store_session_table(sessions, user_email,
                                   session_info(c, call[t].session_id))
                /\ session_mapping' = store_session_mapping(session_mapping,
                                          call[t].session_id, user_email)
           ELSE UNCHANGED <<cred_files, sessions, session_mapping>>
    /\ result' = [result EXCEPT ![t] =
                     [outcome |-> "credentials", info |-> frame[t].credentials]]
    /\ pc' = [pc EXCEPT ![t] = "idle"]
    /\ UNCHANGED <<auxvars, flowvars, call, frame>>

\* stored credentials that differ in validity, refresh token and scopes
StoredCredentials(token) ==
    { Credentials(token, rt, DefaultTokenUri, "cid", "secret", sc, ex) :
        rt \in {None, "rt1"}, sc \in {{}, {DriveScope}}, ex \in {0, 1} }
    \ { Credentials(token, None, DefaultTokenUri, "cid", "secret", sc, 1) :
        sc \in {{}, {DriveScope}} }

SessionToken(e) == IF e = "ann@example.com" THEN "at-ann-session" ELSE "at-bob-session"
FileToken(e) == IF e = "ann@example.com" THEN "at-ann-file" ELSE "at-bob-file"

\* session tables that store_session calls build from those credentials
SessionTables ==
    UNION { { [e \in D |-> session_info(f[e], None)] :
                f \in { g \in [D -> UNION {StoredCredentials(SessionToken(e)) : e \in D}] :
                          \A e \in D : g[e].token = SessionToken(e) } }
            : D \in SUBSET Emails }

\* session-id bindings left by earlier store_session calls
CredsSessionIds == {"s1"}
SessionMappings == UNION { [D -> Emails] : D \in SUBSET CredsSessionIds }

\* credential files that store_credential calls write
FileTables ==
    UNION { { [n \in {email_to_filename(e) : e \in D} |-> creds_data(f[filename_to_email(n)])] :
                f \in { g \in [D -> UNION {StoredCredentials(FileToken(e)) : e \in D}] :
                          \A e \in D : /\ g[e].token = FileToken(e)
                                       /\ g[e].refresh_token = "rt1" } }
            : D \in SUBSET Emails }

RequiredScopes == {{DriveScope}, {DriveScope, DocsScope}}

\* a running process with some sessions, bindings and credential files,
\* and no authorization flow pending
CredsInit ==
    /\ now = 0
    /\ oauth_states = EmptyDict
    /\ lock = None
    /\ disk = NoFile
    /\ tmp = NoFile
    /\ disk_writable \in BOOLEAN
    /\ boots = 0
    /\ pc = [t \in Threads |-> "idle"]
    /\ call = [t \in Threads |-> NoCall]
    /\ result = [t \in Threads |-> NoResult]
    /\ uses = [s \in States |-> 0]
    /\ sessions \in SessionTables
    /\ session_mapping \in SessionMappings
    /\ cred_files \in FileTables
    /\ frame = [t \in Threads |-> NoFrame]
    /\ cred_dir = TRUE
    /\ listener = NoListener
    /\ search_cache = EmptyDict

CredsNext ==
    \E t \in Clients :
        \/ \E e \in Emails \cup {None}, rs \in RequiredScopes,
              sid \in CredsSessionIds \cup {None} :
               get_credentials(t, e, rs, sid)
        \/ \E outcome \in RefreshOutcomes : refresh(t, outcome)
        \/ write_back(t)

SpecCreds == CredsInit /\ [][CredsNext]_vars

\* ============================== handle_auth_callback after the verifier check

\* flow.credentials after a successful flow.fetch_token at instant `time`
ExchangedCredentials(time) ==
    { Credentials("at1", rt, DefaultTokenUri, "cid", "secret", {DriveScope}, time + 1) :
        rt \in {None, "rt1"} }

\* faulty variant: the exchanged credential is filed before the user is known
files_after_exchange_early(files, c, writable) ==
    file_store_credential(files, "pending", c, writable)

\* flow.fetch_token and flow.credentials write no credential file
files_after_exchange(files, c, writable) == files

\* what the userinfo endpoint answers: nothing (HttpError), a profile without
\* an email, or a profile with one
NoUserInfo == EmptyDict
UserInfos == {NoUserInfo, [id |-> "1"]} \cup {[id |-> "1", email |-> e] : e \in Emails}

\* get_user_info: None for credentials that are not valid, else the answer
get_user_info(c, time, answer) ==
    IF c = NoCredentials \/ ~valid(c, time) THEN NoUserInfo ELSE answer

\* if not user_info or "email" not in user_info
email_missing(user_info) == user_info = NoUserInfo \/ "email" \notin DOMAIN user_info

\* create_oauth_flow, flow.code_verifier = code_verifier, flow.fetch_token
callback_exchange(t, outcome) ==
    /\ pc[t] = "callback_exchange"
    /\ \E c \in ExchangedCredentials(now) :
          IF outcome = "ok"
          THEN /\ frame' = [frame EXCEPT ![t].fetch_token_called = TRUE,
                                         ![t].credentials = c]
               /\ cred_files' = files_after_exchange(cred_files, c, disk_writable)
               /\ result' = result
               /\ pc' = [pc EXCEPT ![t] = "callback_user_info"]
          ELSE /\ frame' = [frame EXCEPT ![t].fetch_token_called = TRUE]
               /\ cred_files' = cred_files
               /\ result' = [result EXCEPT ![t] = Outcome("token_exchange_failed")]
               /\ pc' = [pc EXCEPT ![t] = "idle"]
    /\ UNCHANGED <<auxvars, flowvars, call, sessions, session_mapping>>

\* user_info = get_user_info(credentials); a missing email is fatal
callback_user_info(t, answer) ==
    /\ pc[t] = "callback_user_info"
    /\ LET user_info == get_user_info(frame[t].credentials, now, answer)
       IN  IF email_missing(user_info)
           THEN /\ result' = [result EXCEPT ![t] = Outcome("no_email")]
                /\ pc' = [pc EXCEPT ![t] = "idle"]
                /\ frame' = frame
           ELSE /\ result' = result
                /\ pc' = [pc EXCEPT ![t] = "callback_store"]
                /\ frame' = [frame EXCEPT ![t].user_email = user_info.email]
    /\ UNCHANGED <<auxvars, flowvars, call, sessions, session_mapping, cred_files>>

\* store_credential (its return value is not looked at), store_session
\* `if token`, then return user_email, credentials
callback_store(t) ==
    /\ pc[t] = "callback_store"
    /\ LET c == frame[t].credentials
           user_email == frame[t].user_email
       IN  /\ cred_files' = file_store_credential(cred_files, user_email, c, disk_writable)
           /\ IF Truthy(c.token)
              THEN /\ lock = None
                   /\ sessions' = store_session_table(sessions, user_email,
                                      session_info(c, call[t].session_id))
                   /\ session_mapping' = store_session_mapping(session_mapping,
                                             call[t].session_id, user_email)
              ELSE UNCHANGED <<sessions, session_mapping>>
           /\ result' = [result EXCEPT ![t] = [outcome |-> "ok", info |-> c]]
    /\ pc' = [pc EXCEPT ![t] = "idle"]
    /\ UNCHANGED <<auxvars, flowvars, call, frame>>

\* a persisted entry that carries a code verifier
entry_with_verifier(session_id, t) ==
    [session_id |-> session_id,
     expires_at |-> isoformat(t + DefaultExpiresIn),
     created_at |-> isoformat(t),
     code_verifier |-> "verifier"]

\* a state file whose entries may carry a code verifier
VerifierFiles ==
    { [exists |-> TRUE, complete |-> TRUE,
       entries |-> [s \in States |->
                      IF s \in with THEN entry_with_verifier(sid, 0)
                      ELSE serializable_data([x \in {s} |->
                               new_state_info(sid, DefaultExpiresIn, 0)])[s]]] :
        with \in SUBSET States, sid \in {None, "s1"} }

\* a store constructed on such a file: _load_oauth_states_from_disk keeps
\* every key of a persisted entry
CallbackInit ==
    /\ now = 0
    /\ disk \in VerifierFiles
    /\ oauth_states = load_oauth_states_from_disk(disk, now)
    /\ lock = None
    /\ tmp = NoFile
    /\ disk_writable \in BOOLEAN
    /\ boots = 0
    /\ pc = [t \in Threads |-> "idle"]
    /\ call = [t \in Threads |-> NoCall]
    /\ result = [t \in Threads |-> NoResult]
    /\ uses = [s \in States |-> 0]
    /\ sessions = EmptyDict
    /\ session_mapping = EmptyDict
    /\ cred_files = EmptyDict
    /\ frame = [t \in Threads |-> NoFrame]
    /\ cred_dir = TRUE
    /\ listener = NoListener
    /\ search_cache = EmptyDict

CallbackNext ==
    \/ Tick
    \/ \E t \in Clients, s \in States \cup {EmptyStr}, sid \in SessionIds \cup {None} :
          handle_auth_callback(t, s, sid)
    \/ \E t \in Clients :
          \/ validate_lookup(t)
          \/ validate_consume(t)
          \/ save_mkstemp(t)
          \/ save_write(t)
          \/ save_close(t)
          \/ save_replace(t)
          \/ save_fail(t)
          \/ return_from_store(t)
          \/ callback_verifier(t)
          \/ \E outcome \in {"ok", "error"} : callback_exchange(t, outcome)
          \/ \E answer \in UserInfos : callback_user_info(t, answer)
          \/ callback_store(t)

SpecCallback == CallbackInit /\ [][CallbackNext]_vars

\* ------------------------------------------- handle_auth_callback properties

\* whether this call has reached flow.fetch_token
FetchTokenCalled(f) == "fetch_token_called" \in DOMAIN f /\ f.fetch_token_called

\* C11: handle_auth_callback calls flow.fetch_token only with a non-empty
\* code verifier taken from the consumed state, and a callback that fails for
\* a missing verifier fails at the check, before any token exchange.
C11_PkceNeverSkipped ==
    /\ [](\A t \in Clients :
             (call[t].op = "callback"
                 /\ (pc[t] = "callback_exchange" \/ FetchTokenCalled(frame[t])))
             => Truthy(Get(frame[t], "code_verifier")))
    /\ [][\A t \in Clients :
             (result'[t].outcome = "missing_code_verifier" /\ result'[t] # result[t])
             => /\ pc[t] = "callback_verifier" /\ pc'[t] = "idle"
                /\ ~FetchTokenCalled(frame'[t])
         ]_vars

C11_Witness ==
    \E t \in Clients :
        /\ call[t].op = "callback"
        /\ FetchTokenCalled(frame[t])
        /\ frame[t].code_verifier = "verifier"

CallbackFailures ==
    {"missing_state", "invalid_or_expired", "session_mismatch", "key_error",
     "missing_code_verifier", "token_exchange_failed", "no_email"}

\* C12: the only step of handle_auth_callback that changes the credential
\* files, the session table or the session-id mapping is its last one, which
\* returns (email, credentials); a callback that fails has changed none of them.
C12_RejectedWritesNothing ==
    [][\A t \in Clients :
          /\ (<<sessions, session_mapping, cred_files>>'
                  # <<sessions, session_mapping, cred_files>>)
                => /\ pc[t] = "callback_store" /\ pc'[t] = "idle"
                   /\ result'[t].outcome = "ok"
          /\ (result'[t].outcome \in CallbackFailures /\ result'[t] # result[t])
                => <<sessions, session_mapping, cred_files>>'
                      = <<sessions, session_mapping, cred_files>>
      ]_vars

C12_Witness ==
    \E t \in Clients :
        /\ call[t].op = "callback"
        /\ pc[t] = "idle"
        /\ result[t].outcome = "no_email"
        /\ frame[t].fetch_token_called
        /\ email_to_filename(frame[t].user_email) \notin DOMAIN cred_files

YieldBySessionId(session_id) ==
    IF Truthy(session_id)
    THEN credentials_of_session_id(sessions, session_mapping, session_id)
    ELSE NoCredentials

YieldByIdentity(user_email) ==
    IF ~Truthy(user_email) THEN NoCredentials
    ELSE IF session_exists(sessions, user_email)
    THEN credentials_of_session(sessions, user_email)
    ELSE file_get_credential(cred_files, user_email)

YieldBySoleSession ==
    IF Cardinality(DOMAIN sessions) = 1
    THEN credentials_of_session(sessions, CHOOSE e \in DOMAIN sessions : TRUE)
    ELSE NoCredentials

YieldBySoleFile ==
    IF Cardinality(DOMAIN cred_files) = 1
    THEN file_get_credential(cred_files,
                             filename_to_email(CHOOSE n \in DOMAIN cred_files : TRUE))
    ELSE NoCredentials

FirstYield(session_id, user_email) ==
    IF YieldBySessionId(session_id) # NoCredentials THEN YieldBySessionId(session_id)
    ELSE IF YieldByIdentity(user_email) # NoCredentials THEN YieldByIdentity(user_email)
    ELSE IF YieldBySoleSession # NoCredentials THEN YieldBySoleSession
    ELSE YieldBySoleFile

\* C14: get_credentials resolves the credential of the first step that yields
\* one, in the order session id, explicit identity (session table, then
\* credential file), sole session, sole credential file; it consults a step
\* only when every earlier step yields none.
C14_ResolutionOrder ==
    [][\A t \in Clients :
          (call[t].op = "none" /\ call'[t].op = "get_credentials") =>
              LET sid == call'[t].session_id
                  email == frame'[t].arg_email
                  consulted == frame'[t].consulted
              IN  /\ frame'[t].credentials = FirstYield(sid, email)
                  /\ consulted \cap {"email_session", "email_file"} # {}
                        => YieldBySessionId(sid) = NoCredentials
                  /\ consulted \cap {"single_session", "single_session_file"} # {}
                        => /\ YieldBySessionId(sid) = NoCredentials
                           /\ YieldByIdentity(email) = NoCredentials
                  /\ "single_file" \in consulted
                        => /\ YieldBySessionId(sid) = NoCredentials
                           /\ YieldByIdentity(email) = NoCredentials
                           /\ YieldBySoleSession = NoCredentials
      ]_vars

C14_Witness ==
    \E t \in Clients :
        /\ call[t].op = "get_credentials"
        /\ frame[t].consulted = {"session_id"}
        /\ Truthy(frame[t].arg_email)
        /\ frame[t].owner # frame[t].arg_email
        /\ session_exists(sessions, frame[t].arg_email)
        /\ frame[t].credentials.token = SessionToken(frame[t].owner)

\* C15: get_credentials returns a credential only if its granted scopes
\* include every required scope, the empty granted set included.
C15_ScopeSuperset ==
    \A t \in Clients :
        (call[t].op = "get_credentials" /\ pc[t] = "idle"
            /\ result[t].info # NoCredentials)
        => frame[t].required_scopes \subseteq result[t].info.scopes

\* C16: a credential that get_credentials refreshed and returned is, when
\* files can be written, the one both stores hold for the user it was resolved
\* for, whichever step resolved it.
C16_RefreshWrittenBack ==
    \A t \in Clients :
        (call[t].op = "get_credentials" /\ pc[t] = "idle" /\ frame[t].refreshed
            /\ result[t].info # NoCredentials /\ disk_writable)
        => /\ file_get_credential(cred_files, frame[t].owner) = result[t].info
           /\ credentials_of_session(sessions, frame[t].owner) = result[t].info

\* C17: when the refresh fails, with RefreshError or any other exception,
\* get_credentials returns None and has changed neither the credential files
\* nor the session table and session-id mapping.
C17_RefreshFailure ==
    [][\A t \in Clients :
          /\ (call[t].op = "none" /\ call'[t].op = "get_credentials")
                => <<sessions, session_mapping, cred_files>>'
                      = <<sessions, session_mapping, cred_files>>
          /\ (pc[t] = "refresh" /\ result'[t].outcome \in {"RefreshError", "Exception"})
                => /\ pc'[t] = "idle"
                   /\ result'[t].info = NoCredentials
                   /\ <<sessions, session_mapping, cred_files>>'
                         = <<sessions, session_mapping, cred_files>>
      ]_vars

C17_Witness ==
    \E t \in Clients :
        /\ call[t].op = "get_credentials"
        /\ pc[t] = "idle"
        /\ result[t].outcome = "RefreshError"
        /\ result[t].info = NoCredentials
        /\ expired(frame[t].credentials, now)

\* ------------------------------------------------- session table properties

\* C18: after any sequence of store_session and remove_session calls,
\* get_single_user_email returns the sole email when exactly one session
\* exists, and None when there are zero or at least two sessions.
C18_SingleUserEmail ==
    \A t \in Clients :
        call[t].op = "get_single_user_email" =>
            /\ Cardinality(DOMAIN sessions) = 1 => result[t].outcome \in DOMAIN sessions
            /\ Cardinality(DOMAIN sessions) # 1 => result[t].outcome = None

C18_Witness ==
    \E t \in Clients :
        /\ call[t].op = "get_single_user_email"
        /\ Cardinality(DOMAIN sessions) = 1
        /\ result[t].outcome \in Emails

\* C19: after store_session(A, ...) the store's get_credentials(A) yields the
\* token fields of that call, no call other than store_session(A) and
\* remove_session(A) changes what it yields, and after remove_session(A) it
\* yields None.
C19_SessionRoundTrip ==
    [][\A t \in Clients, e \in Emails :
          /\ (call'[t].op = "store_session" /\ Get(frame'[t], "user_email") = e)
                => credentials_of_session(sessions', e) = frame'[t].credentials
          /\ (call'[t].op = "remove_session" /\ Get(frame'[t], "user_email") = e)
                => credentials_of_session(sessions', e) = NoCredentials
          /\ ~(call'[t].op \in {"store_session", "remove_session"}
                  /\ Get(frame'[t], "user_email") = e)
                => credentials_of_session(sessions', e) = credentials_of_session(sessions, e)
          /\ (call'[t].op = "store_get_credentials" /\ Get(frame'[t], "user_email") = e)
                => result'[t].info = credentials_of_session(sessions', e)
      ]_vars

C19_Witness ==
    \E t \in Clients, e \in Emails :
        /\ call[t].op = "store_get_credentials"
        /\ Get(frame[t], "user_email") = e
        /\ session_exists(sessions, e)
        /\ result[t].info.token = sessions[e].access_token
        /\ result[t].info.refresh_token = sessions[e].refresh_token

\* C20: remove_session(email) leaves no session for email, and the session id
\* recorded with the removed session no longer maps to email.
C20_RemoveSession ==
    [][\A t \in Clients, e \in Emails :
          (call'[t].op = "remove_session" /\ Get(frame'[t], "user_email") = e) =>
              /\ ~session_exists(sessions', e)
              /\ (session_exists(sessions, e) /\ Truthy(sessions[e].session_id))
                    => user_of_session_id(session_mapping', sessions[e].session_id) # e
      ]_vars

C20_Witness ==
    \E t \in Clients :
        /\ call[t].op = "remove_session"
        /\ frame[t].had_session
        /\ Truthy(call[t].session_id)
        /\ ~session_exists(sessions, frame[t].user_email)
        /\ call[t].session_id \notin DOMAIN session_mapping

\* ------------------------------------------------------------ SearchManager
\* letters = 'ABCDEFGHIJKLMNOPQRSTUVWXYZ'
letters == <<"A", "B", "C", "D", "E", "F", "G", "H", "I", "J", "K", "L", "M",
             "N", "O", "P", "Q", "R", "S", "T", "U", "V", "W", "X", "Y", "Z">>

lowercase == <<"a", "b", "c", "d", "e", "f", "g", "h", "i", "j", "k", "l", "m",
               "n", "o", "p", "q", "r", "s", "t", "u", "v", "w", "x", "y", "z">>

\* the number of letters of the alphabet above
AliasLimit == 26

\* the longest file list searched
MaxFiles == 27

\* str.upper() of a query of one character
upper(query) ==
    IF \E i \in DOMAIN lowercase : lowercase[i] = query
    THEN letters[CHOOSE i \in DOMAIN lowercase : lowercase[i] = query]
    ELSE query

\* faulty variant: the last letter is never handed out
has_letter_short(i) == i + 1 < Len(letters)

\* `if i < len(letters)` for the 0-based index i of enumerate(files)
has_letter(i) == i < Len(letters)

\* the 1-based positions of `files` that receive an alias
aliased_positions(files) == {i \in DOMAIN files : has_letter(i - 1)}

\* ranked_results of cache_results: the aliased files, each with its alias
ranked_results(files) ==
    [i \in aliased_positions(files) |-> [id |-> files[i].id, alias |-> letters[i]]]

\* faulty variant: the previous aliases are kept
cleared_keep(cache) == cache

\* self.search_cache.clear()
cleared(cache) == EmptyDict

\* search_cache after cache_results(files)
cache_after(cache, files) ==
    LET kept == cleared(cache)
        assigned == {letters[i] : i \in aliased_positions(files)}
    IN  [a \in DOMAIN kept \cup assigned |->
            IF a \in assigned
            THEN files[CHOOSE i \in aliased_positions(files) : letters[i] = a].id
            ELSE kept[a]]

\* the value resolve_alias returns
resolved(cache, query) ==
    IF Len(query) = 1 /\ upper(query) \in DOMAIN cache
    THEN cache[upper(query)]
    ELSE query

\* the file ids of a search: a prefix per search, numbered, in either order
IdPrefixes == {"x", "y"}

\* list lengths around the ends of the alphabet
FileCounts == {0, 1, 2, AliasLimit - 1, AliasLimit, MaxFiles}

FileLists ==
    {[i \in 1..n |-> [id |-> p \o ToString(IF r THEN n + 1 - i ELSE i)]] :
        n \in FileCounts, p \in IdPrefixes, r \in BOOLEAN}

Queries == {"a", "A", "b", "B", "z", "Z", "AB", "x1", "y27", "", "?"}

\* SearchManager.cache_results(files)
cache_results(t, files) ==
    /\ pc[t] = "idle"
    /\ search_cache' = cache_after(search_cache, files)
    /\ call' = [call EXCEPT ![t] = [op |-> "cache_results"]]
    /\ result' = [result EXCEPT ![t] =
                    [outcome |-> "returned", info |-> ranked_results(files)]]
    /\ frame' = [frame EXCEPT ![t] =
                    [files |-> files,
                     previous_count |-> IF "files" \in DOMAIN frame[t]
                                        THEN Len(frame[t].files) ELSE 0]]
    /\ UNCHANGED <<flowvars, pc, sessions, session_mapping, cred_files,
                   cred_dir, listener>>

\* SearchManager.resolve_alias(query)
resolve_alias(t, query) ==
    /\ pc[t] = "idle"
    /\ call' = [call EXCEPT ![t] = [op |-> "resolve_alias", query |-> query]]
    /\ result' = [result EXCEPT ![t] =
                    [outcome |-> "returned", info |-> resolved(search_cache, query)]]
    /\ UNCHANGED <<flowvars, pc, storevars, auxvars>>

SearchNext ==
    \E t \in Clients :
        \/ \E files \in FileLists : cache_results(t, files)
        \/ \E query \in Queries : resolve_alias(t, query)

SearchInit == Init /\ disk_writable

SpecSearch == SearchInit /\ [][SearchNext]_vars

\* the files of the latest cache_results call of thread t
LatestFiles(t) == IF "files" \in DOMAIN frame[t] THEN frame[t].files ELSE <<>>

\* the position of a letter in the alphabet
LetterIndex(a) == CHOOSE i \in DOMAIN letters : letters[i] = a

CountAliased(n) == IF n < AliasLimit THEN n ELSE AliasLimit

\* C29: cache_results returns min(n, 26) entries, the i-th one being the i-th
\* input file with the i-th letter as its alias, and the cache maps exactly
\* those letters, each to its file's id.
C29_AliasesInOrder ==
    \A t \in Clients :
        call[t].op = "cache_results" =>
            LET files == frame[t].files
                ranked == result[t].info
            IN  /\ Len(ranked) = CountAliased(Len(files))
                /\ \A i \in 1..Len(ranked) :
                      /\ ranked[i].id = files[i].id
                      /\ ranked[i].alias = letters[i]
                      /\ search_cache[letters[i]] = files[i].id
                /\ DOMAIN search_cache = {letters[i] : i \in 1..Len(ranked)}

C29_Witness ==
    \E t \in Clients :
        /\ call[t].op = "cache_results"
        /\ Len(frame[t].files) > AliasLimit
        /\ Len(result[t].info) = AliasLimit
        /\ result[t].info[AliasLimit].alias = "Z"
        /\ search_cache["Z"] = frame[t].files[AliasLimit].id

\* C30: resolve_alias of one letter, in either case, returns the id of the
\* file at that letter's position in the latest cache_results input when
\* that call aliased such a position, and returns the query itself for a
\* letter beyond it and for every query that is not one character long.
C30_LatestResultsOnly ==
    \A t \in Clients :
        call[t].op = "resolve_alias" =>
            LET query == call[t].query
                files == LatestFiles(t)
                count == CountAliased(Len(files))
                letter == upper(query)
            IN  result[t].info =
                    IF /\ Len(query) = 1
                       /\ \E i \in 1..count : letters[i] = letter
                    THEN files[LetterIndex(letter)].id
                    ELSE query

C30_Witness ==
    \E t \in Clients :
        /\ call[t].op = "resolve_alias"
        /\ call[t].query = "b"
        /\ Len(LatestFiles(t)) = 1
        /\ frame[t].previous_count > 1
        /\ result[t].info = "b"

\* ------------------------------------------- credential file names, in bytes
\* An email is the sequence of its code points; a file name is the sequence
\* of its characters.

\* '+', '.', '@', '_', 'a', U+00E9 and U+4E2D
CodePoints == {43, 46, 64, 95, 97, 233, 20013}

\* the longest email encoded, in code points
MaxEmailLen == 2

EmailStrings == UNION {[1..n -> CodePoints] : n \in 0..MaxEmailLen}

\* the value standing for a raised ValueError / UnicodeDecodeError
DecodeError == <<-1>>

\* str.encode("utf-8") of one code point
utf8(cp) ==
    IF cp < 128 THEN <<cp>>
    ELSE IF cp < 2048 THEN <<192 + (cp \div 64), 128 + (cp % 64)>>
    ELSE <<224 + (cp \div 4096), 128 + ((cp \div 64) % 64), 128 + (cp % 64)>>

RECURSIVE encode_utf8(_)
encode_utf8(text) ==
    IF text = <<>> THEN <<>> ELSE utf8(Head(text)) \o encode_utf8(Tail(text))

\* the length of the UTF-8 sequence a lead byte announces, 0 for no lead byte
utf8_length(lead) ==
    IF lead < 128 THEN 1
    ELSE IF lead \in 192..223 THEN 2
    ELSE IF lead \in 224..239 THEN 3
    ELSE 0

\* bytes.decode("utf-8")
RECURSIVE decode_utf8(_)
decode_utf8(bytes) ==
    IF bytes = <<>> THEN <<>>
    ELSE LET n == utf8_length(bytes[1])
         IN  IF \/ n = 0
                \/ Len(bytes) < n
                \/ \E i \in 2..n : bytes[i] \notin 128..191
             THEN DecodeError
             ELSE LET cp == IF n = 1 THEN bytes[1]
                            ELSE IF n = 2 THEN (bytes[1] - 192) * 64 + (bytes[2] - 128)
                            ELSE (bytes[1] - 224) * 4096 + (bytes[2] - 128) * 64
                                    + (bytes[3] - 128)
                      rest == decode_utf8(SubSeq(bytes, n + 1, Len(bytes)))
                  IN  IF rest = DecodeError THEN DecodeError ELSE <<cp>> \o rest

\* the URL-safe base64 alphabet
b64_alphabet ==
    <<"A", "B", "C", "D", "E", "F", "G", "H", "I", "J", "K", "L", "M", "N", "O", "P",
      "Q", "R", "S", "T", "U", "V", "W", "X", "Y", "Z", "a", "b", "c", "d", "e", "f",
      "g", "h", "i", "j", "k", "l", "m", "n", "o", "p", "q", "r", "s", "t", "u", "v",
      "w", "x", "y", "z", "0", "1", "2", "3", "4", "5", "6", "7", "8", "9", "-", "_">>

b64_char(v) == b64_alphabet[v + 1]

b64_value(c) == (CHOOSE i \in DOMAIN b64_alphabet : b64_alphabet[i] = c) - 1

\* base64.urlsafe_b64encode, padding included
RECURSIVE urlsafe_b64encode(_)
urlsafe_b64encode(bytes) ==
    IF bytes = <<>> THEN <<>>
    ELSE IF Len(bytes) = 1 THEN
        <<b64_char(bytes[1] \div 4), b64_char((bytes[1] % 4) * 16), "=", "=">>
    ELSE IF Len(bytes) = 2 THEN
        <<b64_char(bytes[1] \div 4),
          b64_char((bytes[1] % 4) * 16 + (bytes[2] \div 16)),
          b64_char((bytes[2] % 16) * 4), "=">>
    ELSE
        <<b64_char(bytes[1] \div 4),
          b64_char((bytes[1] % 4) * 16 + (bytes[2] \div 16)),
          b64_char((bytes[2] % 16) * 4 + (bytes[3] \div 64)),
          b64_char(bytes[3] % 64)>>
        \o urlsafe_b64encode(SubSeq(bytes, 4, Len(bytes)))

\* str.rstrip("=")
RECURSIVE rstrip_padding(_)
rstrip_padding(chars) ==
    IF chars # <<>> /\ chars[Len(chars)] = "="
    THEN rstrip_padding(SubSeq(chars, 1, Len(chars) - 1))
    ELSE chars

\* faulty variant: the stripped padding is never put back
padding_none(length) == 4

\* padding = 4 - (len(filename) % 4)
padding(length) == 4 - (length % 4)

\* filename += "=" * padding, unless padding is 4
padded(chars) ==
    IF padding(Len(chars)) # 4
    THEN chars \o [i \in 1..padding(Len(chars)) |-> "="]
    ELSE chars

\* base64.urlsafe_b64decode of a padded text
RECURSIVE urlsafe_b64decode(_)
urlsafe_b64decode(chars) ==
    IF chars = <<>> THEN <<>>
    ELSE IF Len(chars) < 4 \/ chars[1] = "=" \/ chars[2] = "=" THEN DecodeError
    ELSE LET v1 == b64_value(chars[1])
             v2 == b64_value(chars[2])
             rest == SubSeq(chars, 5, Len(chars))
         IN  IF chars[3] = "=" THEN
                 IF chars[4] = "=" /\ rest = <<>>
                 THEN <<v1 * 4 + (v2 \div 16)>>
                 ELSE DecodeError
             ELSE IF chars[4] = "=" THEN
                 IF rest = <<>>
                 THEN <<v1 * 4 + (v2 \div 16),
                        (v2 % 16) * 16 + (b64_value(chars[3]) \div 4)>>
                 ELSE DecodeError
             ELSE LET tail == urlsafe_b64decode(rest)
                  IN  IF tail = DecodeError THEN DecodeError
                      ELSE <<v1 * 4 + (v2 \div 16),
                             (v2 % 16) * 16 + (b64_value(chars[3]) \div 4),
                             (b64_value(chars[3]) % 4) * 64 + b64_value(chars[4])>>
                           \o tail

\* _email_to_filename on code points
email_to_filename_b64(user_email) ==
    rstrip_padding(urlsafe_b64encode(encode_utf8(user_email)))

\* _filename_to_email on characters
filename_to_email_b64(filename) ==
    LET bytes == urlsafe_b64decode(padded(filename))
    IN  IF bytes = DecodeError THEN DecodeError ELSE decode_utf8(bytes)

FilenameInit ==
    /\ now = 0
    /\ oauth_states = EmptyDict
    /\ lock = None
    /\ disk = NoFile
    /\ tmp = NoFile
    /\ disk_writable = TRUE
    /\ boots = 0
    /\ pc = [t \in Threads |-> "idle"]
    /\ call = [t \in Threads |-> NoCall]
    /\ result = [t \in Threads |-> NoResult]
    /\ uses = [s \in States |-> 0]
    /\ sessions = EmptyDict
    /\ session_mapping = EmptyDict
    /\ cred_files = EmptyDict
    /\ \E e \in EmailStrings :
          frame = [t \in Threads |-> IF t \in Clients THEN [user_email |-> e] ELSE NoFrame]
    /\ cred_dir = TRUE
    /\ listener = NoListener
    /\ search_cache = EmptyDict

\* self._email_to_filename(user_email)
email_to_filename_call(t) ==
    /\ pc[t] = "idle"
    /\ call[t].op = "none"
    /\ call' = [call EXCEPT ![t] = [op |-> "_email_to_filename"]]
    /\ result' = [result EXCEPT ![t] =
                    [outcome |-> "returned",
                     info |-> email_to_filename_b64(frame[t].user_email)]]
    /\ UNCHANGED <<flowvars, pc, storevars, auxvars>>

\* self._filename_to_email(filename) on the name made above
filename_to_email_call(t) ==
    /\ pc[t] = "idle"
    /\ call[t].op = "_email_to_filename"
    /\ call' = [call EXCEPT ![t] = [op |-> "_filename_to_email", filename |-> result[t].info]]
    /\ result' = [result EXCEPT ![t] =
                    [outcome |-> "returned",
                     info |-> filename_to_email_b64(result[t].info)]]
    /\ UNCHANGED <<flowvars, pc, storevars, auxvars>>

FilenameNext ==
    \E t \in Clients :
        \/ email_to_filename_call(t)
        \/ filename_to_email_call(t)

SpecFilename == FilenameInit /\ [][FilenameNext]_vars

\* C21: decoding the file name of an email gives back that email, and no
\* other email has the same file name.
C21_FilenameRoundTrip ==
    \A t \in Clients :
        /\ call[t].op = "_filename_to_email" => result[t].info = frame[t].user_email
        /\ call[t].op = "_email_to_filename" =>
              \A other \in EmailStrings :
                  email_to_filename_b64(other) = result[t].info
                      => other = frame[t].user_email

C21_Witness ==
    \E t \in Clients :
        /\ call[t].op = "_filename_to_email"
        /\ frame[t].user_email = <<43, 233>>
        /\ call[t].filename = <<"K", "8", "O", "p">>
        /\ result[t].info = <<43, 233>>

\* --------------------------------------- LocalDirectoryCredentialStore calls
StoreEmails == Emails \cup {"a@b.com"}

FileCredentials ==
    {Credentials(token, "rt1", DefaultTokenUri, "cid", "secret", {DriveScope}, 1) :
        token \in {"at-1", "at-2"}}

\* what the file system does during one call
IoOutcomes == {"ok", "makedirs_fails", "open_fails", "write_fails", "remove_fails"}

\* _ensure_dir_exists: os.makedirs runs only when base_dir is absent
ensure_dir_raises(dir_exists, io) == ~dir_exists /\ io = "makedirs_fails"

\* faulty variant: the body of store_credential runs past a failed open
stored_despite(io) == TRUE

\* the with-block of store_credential completes
stored(io) == io \notin {"open_fails", "write_fails"}

\* the files after store_credential reached its try block
files_after_store(files, user_email, c, io) ==
    IF io = "open_fails" THEN files
    ELSE IF io = "write_fails"
    THEN Put(files, email_to_filename(user_email), TruncatedFile)
    ELSE Put(files, email_to_filename(user_email), creds_data(c))

\* the files after delete_credential reached its try block
files_after_delete(files, user_email, io) ==
    IF email_to_filename(user_email) \in DOMAIN files /\ io # "remove_fails"
    THEN Del(files, email_to_filename(user_email))
    ELSE files

\* the history of the calls made so far: the emails stored and not deleted
\* since, and whether a file operation has failed
FileHistory(emails, failed, user_email) ==
    [stored |-> emails, io_failed |-> failed, user_email |-> user_email]

\* LocalDirectoryCredentialStore.store_credential
store_credential(t, user_email, c, io) ==
    /\ pc[t] = "idle"
    /\ io \in {"ok", "open_fails", "write_fails"} \/ ensure_dir_raises(cred_dir, io)
    /\ call' = [call EXCEPT ![t] = [op |-> "store_credential", io |-> io]]
    /\ IF ensure_dir_raises(cred_dir, io)
       THEN /\ result' = [result EXCEPT ![t] = Outcome("OSError")]
            /\ frame' = [frame EXCEPT ![t] =
                            FileHistory(frame[t].stored, TRUE, user_email)]
            /\ UNCHANGED <<cred_dir, cred_files>>
       ELSE /\ cred_dir' = TRUE
            /\ cred_files' = files_after_store(cred_files, user_email, c, io)
            /\ result' = [result EXCEPT ![t] =
                            [outcome |-> "returned", info |-> stored(io)]]
            /\ frame' = [frame EXCEPT ![t] =
                            FileHistory(IF stored(io)
                                        THEN frame[t].stored \cup {user_email}
                                        ELSE frame[t].stored,
                                        frame[t].io_failed \/ ~stored(io), user_email)]
    /\ UNCHANGED <<flowvars, pc, sessions, session_mapping, listener, search_cache>>

\* LocalDirectoryCredentialStore.delete_credential
delete_credential(t, user_email, io) ==
    /\ pc[t] = "idle"
    /\ \/ io = "ok"
       \/ ensure_dir_raises(cred_dir, io)
       \/ io = "remove_fails" /\ email_to_filename(user_email) \in DOMAIN cred_files
    /\ call' = [call EXCEPT ![t] = [op |-> "delete_credential", io |-> io]]
    /\ IF ensure_dir_raises(cred_dir, io)
       THEN /\ result' = [result EXCEPT ![t] = Outcome("OSError")]
            /\ frame' = [frame EXCEPT ![t] =
                            FileHistory(frame[t].stored, TRUE, user_email)]
            /\ UNCHANGED <<cred_dir, cred_files>>
       ELSE /\ cred_dir' = TRUE
            /\ cred_files' = files_after_delete(cred_files, user_email, io)
            /\ result' = [result EXCEPT ![t] =
                            [outcome |-> "returned", info |-> io # "remove_fails"]]
            /\ frame' = [frame EXCEPT ![t] =
                            FileHistory(IF io # "remove_fails"
                                        THEN frame[t].stored \ {user_email}
                                        ELSE frame[t].stored,
                                        frame[t].io_failed \/ io = "remove_fails",
                                        user_email)]
    /\ UNCHANGED <<flowvars, pc, sessions, session_mapping, listener, search_cache>>

\* LocalDirectoryCredentialStore.list_users, os.listdir answering `listing`
list_users_call(t, listing) ==
    /\ pc[t] = "idle"
    /\ call' = [call EXCEPT ![t] = [op |-> "list_users", listing |-> listing]]
    /\ result' = [result EXCEPT ![t] =
                    [outcome |-> "returned",
                     info |-> IF ~cred_dir THEN <<>> ELSE list_users_in(listing)]]
    /\ frame' = [frame EXCEPT ![t] =
                    FileHistory(frame[t].stored, frame[t].io_failed, None)]
    /\ UNCHANGED <<flowvars, pc, sessions, session_mapping, cred_files, auxvars>>

\* a store constructed earlier, its directory empty or removed since
FilesInit ==
    /\ now = 0
    /\ oauth_states = EmptyDict
    /\ lock = None
    /\ disk = NoFile
    /\ tmp = NoFile
    /\ disk_writable = TRUE
    /\ boots = 0
    /\ pc = [t \in Threads |-> "idle"]
    /\ call = [t \in Threads |-> NoCall]
    /\ result = [t \in Threads |-> NoResult]
    /\ uses = [s \in States |-> 0]
    /\ sessions = EmptyDict
    /\ session_mapping = EmptyDict
    /\ cred_files = EmptyDict
    /\ frame = [t \in Threads |-> IF t \in Clients
                                  THEN FileHistory({}, FALSE, None) ELSE NoFrame]
    /\ cred_dir \in BOOLEAN
    /\ listener = NoListener
    /\ search_cache = EmptyDict

FilesNext ==
    \E t \in Clients :
        \/ \E e \in StoreEmails, c \in FileCredentials, io \in IoOutcomes :
              store_credential(t, e, c, io)
        \/ \E e \in StoreEmails, io \in IoOutcomes : delete_credential(t, e, io)
        \/ \E listing \in listdir(cred_files) : list_users_call(t, listing)

SpecFiles == FilesInit /\ [][FilesNext]_vars

\* C22: as long as no file operation has failed, list_users returns the
\* emails stored and not deleted since, each once, in ascending order, and
\* delete_credential of an email without a file returns True and leaves the
\* credential files as they were.
C22_ListUsers ==
    [][\A t \in Clients :
          ~frame'[t].io_failed =>
              /\ call'[t].op = "list_users" =>
                    LET users == result'[t].info
                    IN  /\ {users[i] : i \in DOMAIN users} = frame'[t].stored
                        /\ \A i, j \in DOMAIN users : i < j => str_less(users[i], users[j])
              /\ (/\ call'[t].op = "delete_credential"
                  /\ email_to_filename(frame'[t].user_email) \notin DOMAIN cred_files)
                    => /\ result'[t].outcome = "returned"
                       /\ result'[t].info = TRUE
                       /\ cred_files' = cred_files
      ]_vars

C22_Witness ==
    \E t \in Clients :
        /\ call[t].op = "list_users"
        /\ ~frame[t].io_failed
        /\ call[t].listing = <<email_to_filename("bob@example.com"),
                               email_to_filename("a@b.com")>>
        /\ result[t].info = <<"a@b.com", "bob@example.com">>
        /\ frame[t].stored = {"a@b.com", "bob@example.com"}

\* C23: store_credential returns False for every failed file operation and
\* never raises.
C23_StoreNeverRaises ==
    \A t \in Clients :
        call[t].op = "store_credential" =>
            /\ result[t].outcome = "returned"
            /\ result[t].info = (call[t].io = "ok")

\* ------------------------------------------------------- MinimalOAuthServer
\* `listener` holds the global instance (_minimal_oauth_server is not None),
\* its is_running flag, the run_server threads started so far and whether
\* another process holds the port.

\* the server threads ever started
MaxServerThreads == 2

\* max_wait = 3.0, counted in sleeps between two polls
max_wait == 3

TransportModes == {"stdio", "streamable-http", "sse"}

\* some socket is bound to (hostname, port) and accepts connections
port_bound(l) ==
    l.port_taken \/ \E i \in DOMAIN l.server_threads : l.server_threads[i] = "serving"

\* the Tuple[bool, str] a call returns
Answer(success, error_msg) == [outcome |-> "returned", info |-> <<success, error_msg>>]

\* faulty variant: start never takes its early return
already_running_never(l) == FALSE

\* `if self.is_running:` of start
already_running(l) == l.is_running

\* faulty variant: the wait loop's clock stands still
elapsed_after_sleep_frozen(elapsed) == elapsed

\* time.time() - start_time after one more time.sleep
elapsed_after_sleep(elapsed) == elapsed + 1

\* MinimalOAuthServer.start is called
start(t) ==
    /\ pc[t] = "idle"
    /\ listener.instance
    /\ call' = [call EXCEPT ![t] = [op |-> "start"]]
    /\ pc' = [pc EXCEPT ![t] = "start"]
    /\ result' = [result EXCEPT ![t] = NoResult]
    /\ frame' = [frame EXCEPT ![t] = NoFrame]
    /\ UNCHANGED <<flowvars, sessions, session_mapping, cred_files, auxvars>>

\* start up to Thread.start(): the early return, the bind check, the thread
start_thread(t) ==
    /\ pc[t] = "start"
    /\ IF already_running(listener)
       THEN /\ result' = [result EXCEPT ![t] = Answer(TRUE, "")]
            /\ pc' = [pc EXCEPT ![t] = "idle"]
            /\ UNCHANGED <<listener, frame>>
       ELSE IF port_bound(listener)
       THEN /\ result' = [result EXCEPT ![t] = Answer(FALSE, "port already in use")]
            /\ pc' = [pc EXCEPT ![t] = "idle"]
            /\ UNCHANGED <<listener, frame>>
       ELSE /\ Len(listener.server_threads) < MaxServerThreads
            /\ listener' = [listener EXCEPT
                              !.server_threads = Append(@, "starting")]
            /\ frame' = [frame EXCEPT ![t] = [elapsed |-> 0]]
            /\ pc' = [pc EXCEPT ![t] = "start_wait"]
            /\ UNCHANGED result
    /\ UNCHANGED <<flowvars, call, sessions, session_mapping, cred_files,
                   cred_dir, search_cache>>

\* one turn of the wait loop: the time test, connect_ex, the sleep
start_poll(t) ==
    /\ pc[t] = "start_wait"
    /\ IF frame[t].elapsed < max_wait
       THEN IF port_bound(listener)
            THEN /\ listener' = [listener EXCEPT !.is_running = TRUE]
                 /\ result' = [result EXCEPT ![t] = Answer(TRUE, "")]
                 /\ pc' = [pc EXCEPT ![t] = "idle"]
                 /\ UNCHANGED frame
            ELSE /\ frame' = [frame EXCEPT ![t].elapsed = elapsed_after_sleep(@)]
                 /\ UNCHANGED <<listener, result, pc>>
       ELSE /\ result' = [result EXCEPT ![t] = Answer(FALSE, "failed to start")]
            /\ pc' = [pc EXCEPT ![t] = "idle"]
            /\ UNCHANGED <<listener, frame>>
    /\ UNCHANGED <<flowvars, call, sessions, session_mapping, cred_files,
                   cred_dir, search_cache>>

\* run_server: uvicorn binds the port, or exits when it is taken
serve_bind(i) ==
    /\ i \in DOMAIN listener.server_threads
    /\ listener.server_threads[i] = "starting"
    /\ listener' = [listener EXCEPT !.server_threads[i] =
                        IF port_bound(listener) THEN "dead" ELSE "serving"]
    /\ UNCHANGED <<flowvars, pc, call, result, storevars, cred_dir, search_cache>>

\* run_server: the except branch
serve_error(i) ==
    /\ i \in DOMAIN listener.server_threads
    /\ listener.server_threads[i] # "dead"
    /\ listener' = [listener EXCEPT !.server_threads[i] = "dead",
                                    !.is_running = FALSE]
    /\ UNCHANGED <<flowvars, pc, call, result, storevars, cred_dir, search_cache>>

\* the listener after MinimalOAuthServer.stop
stopped(l) ==
    IF ~l.is_running THEN l
    ELSE [l EXCEPT !.is_running = FALSE,
                   !.server_threads =
                       [i \in DOMAIN @ |-> IF i = Len(@) THEN "dead" ELSE @[i]]]

\* MinimalOAuthServer.stop
stop(t) ==
    /\ pc[t] = "idle"
    /\ listener.instance
    /\ call' = [call EXCEPT ![t] = [op |-> "stop"]]
    /\ result' = [result EXCEPT ![t] = Outcome("None")]
    /\ listener' = stopped(listener)
    /\ frame' = [frame EXCEPT ![t] = NoFrame]
    /\ UNCHANGED <<flowvars, pc, sessions, session_mapping, cred_files,
                   cred_dir, search_cache>>

\* cleanup_oauth_callback_server
cleanup_oauth_callback_server(t) ==
    /\ pc[t] = "idle"
    /\ call' = [call EXCEPT ![t] = [op |-> "cleanup_oauth_callback_server"]]
    /\ result' = [result EXCEPT ![t] = Outcome("None")]
    /\ listener' = IF listener.instance
                   THEN [stopped(listener) EXCEPT !.instance = FALSE]
                   ELSE listener
    /\ frame' = [frame EXCEPT ![t] = NoFrame]
    /\ UNCHANGED <<flowvars, pc, sessions, session_mapping, cred_files,
                   cred_dir, search_cache>>

\* ensure_oauth_callback_available up to the test of is_running
ensure_oauth_callback_available(t, transport_mode) ==
    /\ pc[t] = "idle"
    /\ call' = [call EXCEPT ![t] = [op |-> "ensure_oauth_callback_available",
                                    transport_mode |-> transport_mode]]
    /\ frame' = [frame EXCEPT ![t] = NoFrame]
    /\ IF transport_mode = "streamable-http"
       THEN /\ result' = [result EXCEPT ![t] = Answer(TRUE, "")]
            /\ UNCHANGED <<pc, listener>>
       ELSE IF transport_mode = "stdio"
       THEN /\ listener' = [listener EXCEPT !.instance = TRUE]
            /\ pc' = [pc EXCEPT ![t] = "ensure"]
            /\ result' = [result EXCEPT ![t] = NoResult]
       ELSE /\ result' = [result EXCEPT ![t] = Answer(FALSE, "unknown transport mode")]
            /\ UNCHANGED <<pc, listener>>
    /\ UNCHANGED <<flowvars, sessions, session_mapping, cred_files,
                   cred_dir, search_cache>>

\* `if not _minimal_oauth_server.is_running: return start()`, else success
ensure_running(t) ==
    /\ pc[t] = "ensure"
    /\ IF ~listener.is_running
       THEN /\ pc' = [pc EXCEPT ![t] = "start"]
            /\ UNCHANGED result
       ELSE /\ pc' = [pc EXCEPT ![t] = "idle"]
            /\ result' = [result EXCEPT ![t] = Answer(TRUE, "")]
    /\ UNCHANGED <<flowvars, call, storevars, auxvars>>

\* no instance yet; the port free or held by another process
ListenerInit ==
    /\ now = 0
    /\ oauth_states = EmptyDict
    /\ lock = None
    /\ disk = NoFile
    /\ tmp = NoFile
    /\ disk_writable = TRUE
    /\ boots = 0
    /\ pc = [t \in Threads |-> "idle"]
    /\ call = [t \in Threads |-> NoCall]
    /\ result = [t \in Threads |-> NoResult]
    /\ uses = [s \in States |-> 0]
    /\ sessions = EmptyDict
    /\ session_mapping = EmptyDict
    /\ cred_files = EmptyDict
    /\ frame = [t \in Threads |-> NoFrame]
    /\ cred_dir = TRUE
    /\ \E taken \in BOOLEAN : listener = [NoListener EXCEPT !.port_taken = taken]
    /\ search_cache = EmptyDict

ListenerNext ==
    \/ \E t \in Clients :
          \/ start(t)
          \/ start_thread(t)
          \/ start_poll(t)
          \/ stop(t)
          \/ cleanup_oauth_callback_server(t)
          \/ \E mode \in TransportModes : ensure_oauth_callback_available(t, mode)
          \/ ensure_running(t)
    \/ \E i \in 1..MaxServerThreads : serve_bind(i) \/ serve_error(i)

SpecListener == ListenerInit /\ [][ListenerNext]_vars

\* the calling thread keeps running while it waits
SpecListenerFair ==
    SpecListener /\ \A t \in Clients : WF_vars(start_poll(t))

\* C24: when start, or ensure_oauth_callback_available in stdio mode, finds
\* the listener running, it returns success and starts no server thread.
C24_StartIdempotent ==
    [][\A t \in Clients :
          (/\ pc[t] \in {"start", "ensure"}
           /\ pc'[t] # pc[t]
           /\ listener.is_running)
            => /\ pc'[t] = "idle"
               /\ result'[t] = Answer(TRUE, "")
               /\ listener' = listener
      ]_vars

C24_Witness ==
    \E t \in Clients :
        /\ call[t].op = "start"
        /\ pc[t] = "idle"
        /\ result[t] = Answer(TRUE, "")
        /\ frame[t] = NoFrame
        /\ listener.is_running
        /\ listener.server_threads = <<"serving">>

\* C25: a start that waits for the port returns; it returns success with
\* is_running set, or, when no poll within the wait found the port
\* connectable, (False, error) with is_running false.
C25_StartTerminates ==
    /\ \A t \in Clients : (pc[t] = "start_wait") ~> (pc[t] = "idle")
    /\ [][\A t \in Clients :
            (pc[t] = "start_wait" /\ pc'[t] = "idle") =>
                \/ /\ result'[t] = Answer(TRUE, "")
                   /\ listener'.is_running
                   /\ port_bound(listener)
                \/ /\ result'[t] = Answer(FALSE, "failed to start")
                   /\ ~listener'.is_running
                   /\ frame[t].elapsed = max_wait
        ]_vars

C25_Witness ==
    \E t \in Clients :
        /\ pc[t] = "idle"
        /\ result[t] = Answer(FALSE, "failed to start")
        /\ frame[t].elapsed = max_wait
        /\ ~listener.is_running
        /\ ~port_bound(listener)
        /\ listener.server_threads = <<"starting">>

\* -------------------------------------------- the /oauth2callback endpoint
Codes == {None, "4/0AbCD"}
Errors == {None, "access_denied"}

\* request.query_params.get of "state", "code" and "error"
Request(state, code, error) == [state |-> state, code |-> code, error |-> error]

\* faulty variant: a request without a code is passed on
code_missing_never(code) == FALSE

\* `if not code:`
code_missing(code) == ~Truthy(code)

\* oauth_callback(request): a failure page, or handle_auth_callback with
\* session_id=None, whose outcome becomes the success page or the 500 page
oauth_callback(t, state, code, error) ==
    /\ pc[t] = "idle"
    /\ frame' = [frame EXCEPT ![t] = NoFrame]
    /\ IF Truthy(error) \/ code_missing(code)
       THEN /\ call' = [call EXCEPT ![t] =
                           [op |-> "oauth_callback",
                            request |-> Request(state, code, error)]]
            /\ result' = [result EXCEPT ![t] = Outcome("error_page_400")]
            /\ pc' = pc
       ELSE /\ call' = [call EXCEPT ![t] =
                           [op |-> "callback", state |-> state, session_id |-> None,
                            ttl |-> 0, request |-> Request(state, code, error)]]
            /\ IF ~Truthy(state)
               THEN /\ result' = [result EXCEPT ![t] = Outcome("missing_state")]
                    /\ pc' = pc
               ELSE /\ result' = [result EXCEPT ![t] = NoResult]
                    /\ pc' = [pc EXCEPT ![t] = "validate_lock"]
    /\ UNCHANGED <<auxvars, flowvars, sessions, session_mapping, cred_files>>

EndpointNext ==
    \/ CallbackNext
    \/ \E t \in Clients, state \in States \cup {None}, code \in Codes, error \in Errors :
          oauth_callback(t, state, code, error)

SpecEndpoint == CallbackInit /\ [][EndpointNext]_vars

\* C26: a request with an error parameter, or without a code, is answered
\* with the failure page at once: handle_auth_callback is not entered, and
\* the state table, the state file, the sessions, the session ids and the
\* credential files stay as they were.
C26_RejectedRequest ==
    [][\A t \in Clients :
          (/\ pc[t] = "idle"
           /\ "request" \in DOMAIN call'[t]
           /\ Truthy(call'[t].request.error) \/ ~Truthy(call'[t].request.code))
            => /\ pc'[t] = "idle"
               /\ call'[t].op = "oauth_callback"
               /\ result'[t] = Outcome("error_page_400")
               /\ oauth_states' = oauth_states
               /\ disk' = disk
               /\ uses' = uses
               /\ <<sessions, session_mapping, cred_files>>' =
                      <<sessions, session_mapping, cred_files>>
      ]_vars

C26_Witness ==
    \E t \in Clients :
        /\ call[t].op = "oauth_callback"
        /\ result[t] = Outcome("error_page_400")
        /\ ~Truthy(call[t].request.error)
        /\ ~Truthy(call[t].request.code)
        /\ call[t].request.state \in DOMAIN oauth_states
        /\ call[t].request.state \in DOMAIN disk.entries

\* ------------------------------------------------ get_credentials_or_auth_url
\* the module-level names of oauth_callback_server.py
oauth_callback_server_names ==
    {"_create_success_html", "_create_error_html", "MinimalOAuthServer",
     "_minimal_oauth_server", "ensure_oauth_callback_available",
     "cleanup_oauth_callback_server"}

\* `from .oauth_callback_server import <name>` finds the name
importable(name) == name \in oauth_callback_server_names

\* get_credentials_or_auth_url after its get_credentials call returned: the
\* credentials when they are valid, else the import of the listener's start
\* function, which raises; the statements after the import are never reached
get_credentials_or_auth_url(t) ==
    /\ pc[t] = "idle"
    /\ call[t].op = "get_credentials"
    /\ call' = [call EXCEPT ![t].op = "get_credentials_or_auth_url"]
    /\ IF result[t].info # NoCredentials /\ valid(result[t].info, now)
       THEN result' = [result EXCEPT ![t] =
                          [outcome |-> "credentials", info |-> result[t].info]]
       ELSE /\ ~importable("start_oauth_callback_server")
            /\ result' = [result EXCEPT ![t] = Outcome("ImportError")]
    /\ UNCHANGED <<flowvars, pc, storevars, auxvars>>

AuthUrlNext ==
    \/ CredsNext
    \/ \E t \in Clients : get_credentials_or_auth_url(t)

SpecAuthUrl == CredsInit /\ [][AuthUrlNext]_vars

\* C27: get_credentials_or_auth_url ends with valid credentials, with an
\* authorization message issued while the listener is running, or with an
\* authentication error.
C27_CredentialsOrAuthUrl ==
    \A t \in Clients :
        call[t].op = "get_credentials_or_auth_url" =>
            \/ result[t].outcome = "credentials" /\ valid(result[t].info, now)
            \/ result[t].outcome = "message" /\ listener.is_running
            \/ result[t].outcome = "GoogleAuthenticationError"

\* ------------------------------------- network calls beside store operations
\* thread t1 runs one handle_auth_callback or one get_credentials while
\* thread t2 makes one call on the session store

\* the positions at which a thread waits for Google: flow.fetch_token,
\* get_user_info, credentials.refresh
NetworkPositions == {"callback_exchange", "callback_user_info", "refresh"}

NetworkState == "abc123"

\* sessions whose credential must be refreshed before use
NetworkSessions ==
    {EmptyDict,
     [e \in {"ann@example.com"} |->
        session_info(Credentials(SessionToken(e), "rt1", DefaultTokenUri, "cid",
                                 "secret", {DriveScope}, 0), None)]}

NetworkInit ==
    /\ now = 0
    /\ disk \in {f \in VerifierFiles : "code_verifier" \in DOMAIN f.entries[NetworkState]}
    /\ oauth_states = load_oauth_states_from_disk(disk, now)
    /\ lock = None
    /\ tmp = NoFile
    /\ disk_writable = TRUE
    /\ boots = 0
    /\ pc = [t \in Threads |-> "idle"]
    /\ call = [t \in Threads |-> NoCall]
    /\ result = [t \in Threads |-> NoResult]
    /\ uses = [s \in States |-> 0]
    /\ sessions \in NetworkSessions
    /\ session_mapping = EmptyDict
    /\ cred_files = EmptyDict
    /\ frame = [t \in Threads |-> NoFrame]
    /\ cred_dir = TRUE
    /\ listener = NoListener
    /\ search_cache = EmptyDict

\* the one call of the thread that talks to Google
NetworkCall(t) ==
    /\ call[t].op = "none"
    /\ \/ handle_auth_callback(t, NetworkState, None)
       \/ get_credentials(t, "ann@example.com", {DriveScope}, None)

\* the one call of the other thread
StoreOperation(t) ==
    /\ call[t].op = "none"
    /\ \/ \E s \in States : store_oauth_state(t, s, None, DefaultExpiresIn)
       \/ \E s \in States : validate_and_consume_oauth_state(t, s, None)
       \/ \E e \in Emails : has_session(t, e)
       \/ \E e \in Emails : remove_session(t, e)

NetworkNext ==
    \/ \E t \in Clients : NetworkCall(t)
    \/ \E t \in Threads \ Clients : StoreOperation(t)
    \/ \E t \in Threads :
          \/ store_oauth_state_locked(t)
          \/ validate_lookup(t)
          \/ validate_consume(t)
          \/ save_mkstemp(t)
          \/ save_write(t)
          \/ save_close(t)
          \/ save_replace(t)
          \/ return_from_store(t)
          \/ callback_verifier(t)
          \/ \E outcome \in {"ok", "error"} : callback_exchange(t, outcome)
          \/ \E answer \in UserInfos : callback_user_info(t, answer)
          \/ callback_store(t)
          \/ \E outcome \in RefreshOutcomes : refresh(t, outcome)
          \/ write_back(t)

SpecNetwork == NetworkInit /\ [][NetworkNext]_vars

\* C28: a thread that is exchanging the code, looking up the identity or
\* refreshing a credential does not hold the store's lock, so the lock is
\* free for, or held by, another thread.
C28_NoLockDuringNetwork ==
    \A t \in Threads :
        pc[t] \in NetworkPositions =>
            /\ lock # t
            /\ \A u \in Threads \ {t} : acquire(lock, u)

C28_Witness ==
    /\ pc["t1"] = "refresh"
    /\ lock = "t2"
    /\ call["t2"].op = "store"
    /\ pc["t2"] = "return"
    /\ call["t2"].state \in DOMAIN disk.entries

\* --------------------------------------------------- failed state-file writes

\* C31: when the state file cannot be written, store_oauth_state still
\* returns normally with the state in the in-memory table, and a later
\* validate_and_consume_oauth_state of that state, unexpired and with a
\* matching session, finds it, consumes it and returns its metadata.
C31_FailedWriteKept ==
    [][\A t \in Clients :
          ~disk_writable =>
              /\ (StepFrom(t, "save_mkstemp") /\ call[t].op = "store")
                    => /\ oauth_states' = oauth_states
                       /\ call[t].state \in DOMAIN oauth_states'
                       /\ result'[t].outcome = "ok"
              /\ (StepFrom(t, "return") /\ call[t].op = "store")
                    => /\ pc'[t] = "idle"
                       /\ result'[t].outcome = "ok"
                       /\ call[t].state \in DOMAIN oauth_states'
              /\ (/\ StepFrom(t, "validate_lock")
                  /\ call[t].state \in DOMAIN oauth_states
                  /\ oauth_states[call[t].state].expires_at > now)
                    => pc'[t] = "validate_check"
              /\ (/\ StepFrom(t, "validate_check")
                  /\ ~session_mismatch(oauth_states[call[t].state], call[t].session_id))
                    => /\ result'[t].outcome = "ok"
                       /\ result'[t].info = oauth_states[call[t].state]
              /\ (/\ StepFrom(t, "return")
                  /\ call[t].op = "validate"
                  /\ result[t].outcome = "ok")
                    => /\ pc'[t] = "idle"
                       /\ result'[t] = result[t]
      ]_vars

C31_Witness ==
    \E t \in Clients :
        /\ ~disk_writable
        /\ disk = NoFile
        /\ Returned(t, "validate")
        /\ result[t].outcome = "ok"
        /\ uses[call[t].state] = 1

\* ---------------------------------------------- get_credentials: more properties

\* C32: a credential returned by get_credentials is valid: it is the
\* resolved one, found unexpired, or the one a successful refresh left; a
\* resolved credential that is expired and has no refresh token gives None.
C32_OnlyValidReturned ==
    \A t \in Clients :
        (call[t].op = "get_credentials" /\ pc[t] = "idle") =>
            /\ result[t].info # NoCredentials =>
                  /\ valid(result[t].info, now)
                  /\ result[t].info = frame[t].credentials
                  /\ frame[t].refreshed \/ result[t].outcome = "credentials"
            /\ (/\ frame[t].credentials # NoCredentials
                /\ expired(frame[t].credentials, now)
                /\ ~Truthy(frame[t].credentials.refresh_token))
                  => result[t].info = NoCredentials

C32_Witness ==
    \E t \in Clients :
        /\ call[t].op = "get_credentials"
        /\ pc[t] = "idle"
        /\ frame[t].refreshed
        /\ result[t].info.token = "at-refreshed"
        /\ valid(result[t].info, now)

\* the step on which thread t enters get_credentials
GetCredentialsStep(t) ==
    pc[t] = "idle" /\ call[t].op = "none" /\ call'[t].op = "get_credentials"

C33_WitnessTwoUsers ==
    \E t \in Clients :
        /\ call[t].op = "get_credentials" /\ call[t].session_id = None
        /\ frame[t].arg_email = None
        /\ sessions = EmptyDict
        /\ Len(list_users(cred_files)) = 2
        /\ result[t].outcome = "no_credentials"

\* ------------------------------------------- the store's lock, two threads
\* get_credentials_by_session in steps: the outer with-block, the lookup of
\* the binding, then get_credentials and its own with-block on the same lock.
LockEmail == "ann@example.com"
LockSession == "s1"

by_session_call(t, session_id) ==
    /\ pc[t] = "idle" /\ call[t].op = "none"
    /\ call' = [call EXCEPT ![t] = StoreCall("get_credentials_by_session", session_id)]
    /\ frame' = [frame EXCEPT ![t] = [user_email |-> None]]
    /\ result' = [result EXCEPT ![t] = NoResult]
    /\ pc' = [pc EXCEPT ![t] = "by_session_lock"]
    /\ UNCHANGED <<auxvars, flowvars, sessions, session_mapping, cred_files>>

\* with self._lock: user_email = self._session_mapping.get(session_id)
by_session_locked(t) ==
    /\ pc[t] = "by_session_lock"
    /\ acquire(lock, t)
    /\ lock' = t
    /\ LET user_email == user_of_session_id(session_mapping, call[t].session_id)
       IN  /\ frame' = [frame EXCEPT ![t].user_email = user_email]
           /\ IF ~Truthy(user_email)
              THEN /\ result' = [result EXCEPT ![t] =
                                    [outcome |-> "credentials", info |-> NoCredentials]]
                   /\ pc' = [pc EXCEPT ![t] = "return"]
              ELSE /\ result' = result
                   /\ pc' = [pc EXCEPT ![t] = "get_credentials_lock"]
    /\ UNCHANGED <<auxvars, now, oauth_states, disk, tmp, disk_writable, boots, uses,
                   call, sessions, session_mapping, cred_files>>

\* return self.get_credentials(user_email): its with self._lock, taken by
\* the thread that holds the lock already
by_session_get_credentials(t) ==
    /\ pc[t] = "get_credentials_lock"
    /\ acquire(lock, t)
    /\ lock' = t
    /\ result' = [result EXCEPT ![t] =
                     [outcome |-> "credentials",
                      info |-> credentials_of_session(sessions, frame[t].user_email)]]
    /\ pc' = [pc EXCEPT ![t] = "get_credentials_unlock"]
    /\ UNCHANGED <<auxvars, now, oauth_states, disk, tmp, disk_writable, boots, uses,
                   call, frame, sessions, session_mapping, cred_files>>

\* the inner with-block ends: the RLock's count goes from 2 to 1 and the
\* thread still owns it
by_session_inner_exit(t) ==
    /\ pc[t] = "get_credentials_unlock"
    /\ lock = t
    /\ pc' = [pc EXCEPT ![t] = "return"]
    /\ UNCHANGED <<auxvars, flowvars, call, result, frame, sessions, session_mapping,
                   cred_files>>

\* one session bound to one session id, and the two states of RaceTable
LockInit ==
    \E writable \in BOOLEAN :
        /\ now = 0
        /\ oauth_states = RaceTable(LockSession)
        /\ disk_writable = writable
        /\ disk = IF writable
                  THEN [exists |-> TRUE,
                        entries |-> serializable_data(RaceTable(LockSession)),
                        complete |-> TRUE]
                  ELSE NoFile
        /\ lock = None
        /\ tmp = NoFile
        /\ boots = 0
        /\ pc = [t \in Threads |-> "idle"]
        /\ call = [t \in Threads |-> NoCall]
        /\ result = [t \in Threads |-> NoResult]
        /\ uses = [s \in States |-> 0]
        /\ sessions = store_session_table(EmptyDict, LockEmail,
                         session_info(Credentials("at1", "rt1", DefaultTokenUri, "cid",
                                                  "secret", {DriveScope}, 1),
                                      LockSession))
        /\ session_mapping = store_session_mapping(EmptyDict, LockSession, LockEmail)
        /\ cred_files = EmptyDict
        /\ frame = [t \in Threads |-> NoFrame]
        /\ cred_dir = TRUE
        /\ listener = NoListener
        /\ search_cache = EmptyDict

\* each thread makes one call of the store
LockCall(t) ==
    /\ call[t].op = "none"
    /\ \/ \E sid \in {LockSession, None} :
              validate_and_consume_oauth_state(t, RaceState, sid)
       \/ \E ttl \in {-1, DefaultExpiresIn} : store_oauth_state(t, RaceState, None, ttl)
       \/ \E sid \in SessionIds : by_session_call(t, sid)
       \/ remove_session(t, LockEmail)

\* a step inside a call of thread t
LockStep(t) ==
    \/ store_oauth_state_locked(t)
    \/ validate_lookup(t)
    \/ validate_consume(t)
    \/ save_mkstemp(t)
    \/ save_write(t)
    \/ save_close(t)
    \/ save_replace(t)
    \/ save_fail(t)
    \/ by_session_locked(t)
    \/ by_session_get_credentials(t)
    \/ by_session_inner_exit(t)
    \/ return_from_store(t)

LockNext ==
    \/ Tick
    \/ \E t \in Threads : LockCall(t)
    \/ \E t \in Threads : LockStep(t)

SpecLock == LockInit /\ [][LockNext]_vars

\* the scheduler runs every thread that can take a step
SpecLockFair == SpecLock /\ \A t \in Threads : WF_vars(LockStep(t))

\* C34: no call of the store waits forever for the store's lock, also
\* get_credentials_by_session, which takes it twice; a thread that has
\* returned or raised does not hold the lock.
C34_NoSelfDeadlock ==
    /\ \A t \in Threads : (pc[t] # "idle") ~> (pc[t] = "idle")
    /\ [](\A t \in Threads : pc[t] = "idle" => lock # t)
    /\ [][\A t \in Threads :
             (pc[t] = "get_credentials_lock" /\ lock = t)
                => ENABLED by_session_get_credentials(t)]_vars

C34_Witness ==
    \E t \in Threads :
        /\ call[t].op = "get_credentials_by_session"
        /\ pc[t] = "idle"
        /\ result[t].outcome = "credentials"
        /\ result[t].info # NoCredentials
        /\ lock = None
        /\ \E u \in Threads \ {t} : Returned(u, "validate") /\ result[u].outcome # "ok"

\* ------------------------------------------------ session binding of a state

\* C35: a state stored with a session id is consumed successfully only by
\* a validation that presents that same session id; a validation that
\* presents None for it is rejected.
C35_BoundStateNeedsSession ==
    [][\A t \in Threads :
          (/\ StepFrom(t, "validate_check")
           /\ call[t].state \in DOMAIN oauth_states
           /\ Truthy(oauth_states[call[t].state].session_id))
             => IF call[t].session_id = oauth_states[call[t].state].session_id
                THEN result'[t].outcome = "ok"
                ELSE result'[t].outcome = "session_mismatch"
      ]_vars

\* a bound state consumed by a call that presented no session id
C35_ConsumedWithoutSession ==
    \E t \in Clients :
        /\ Returned(t, "validate") /\ result[t].outcome = "ok"
        /\ Truthy(result[t].info.session_id)
        /\ call[t].session_id = None

\* ------------------------------------------ get_credentials: whose credential

\* C36: get_credentials(E, ..., session_id = None) with an explicit E
\* returns a credential stored for E or None, never the credential of
\* another user.
C36_ExplicitIdentityOnly ==
    \A t \in Clients :
        (/\ call[t].op = "get_credentials" /\ pc[t] = "idle"
         /\ call[t].session_id = None
         /\ Truthy(frame[t].arg_email)
         /\ result[t].info # NoCredentials)
            => frame[t].owner = frame[t].arg_email

\* a credential of another user returned for an explicit identity
C36_OtherUsersCredential ==
    \E t \in Clients :
        /\ call[t].op = "get_credentials" /\ pc[t] = "idle"
        /\ call[t].session_id = None
        /\ Truthy(frame[t].arg_email)
        /\ result[t].outcome = "credentials"
        /\ frame[t].owner # frame[t].arg_email
        /\ frame[t].arg_email \notin DOMAIN sessions
        /\ email_to_filename(frame[t].arg_email) \notin DOMAIN cred_files

\* key k is absent from both tables or holds the same value in both
SameEntry(d1, d2, k) ==
    /\ (k \in DOMAIN d1) <=> (k \in DOMAIN d2)
    /\ (k \in DOMAIN d1 /\ k \in DOMAIN d2) => d1[k] = d2[k]

\* C37: the write-back after a successful refresh stores the credential
\* under the email it was resolved for and under no other, also when the
\* session id given maps to another email than the user_email argument.
C37_WriteBackUnderOwner ==
    [][\A t \in Clients :
          (pc[t] = "write_back" /\ pc'[t] # "write_back") =>
              \A e \in Emails :
                  e # frame[t].owner =>
                      /\ SameEntry(cred_files', cred_files, email_to_filename(e))
                      /\ SameEntry(sessions', sessions, e)
      ]_vars

\* the refreshed credential of the session's owner, filed under the
\* user_email argument
C37_StoredUnderOtherEmail ==
    \E t \in Clients :
        /\ call[t].op = "get_credentials" /\ pc[t] = "idle"
        /\ frame[t].refreshed
        /\ Truthy(frame[t].arg_email)
        /\ frame[t].owner # frame[t].arg_email
        /\ frame[t].consulted = {"session_id"}
        /\ credentials_of_session(sessions, frame[t].arg_email) = frame[t].credentials

\* ------------------------------------------------ remove_session: its frame

\* the step on which thread t runs remove_session(e)
RemoveSessionStep(t, e) ==
    /\ pc[t] = "idle"
    /\ call'[t].op = "remove_session"
    /\ frame'[t].user_email = e
    /\ result'[t] = Outcome(None)
    /\ sessions' = remove_session_table(sessions, e)

\* C38: remove_session(A) leaves every session id that maps to another
\* email B mapped to B, also when A and B were stored with the same id.
C38_RemoveOnlyOwn ==
    [][\A t \in Clients, A \in Emails :
          RemoveSessionStep(t, A) =>
              \A sid \in DOMAIN session_mapping :
                  session_mapping[sid] # A =>
                      /\ sid \in DOMAIN session_mapping'
                      /\ session_mapping'[sid] = session_mapping[sid]
      ]_vars

\* the binding of another user's session id is gone after the removal
C38_OtherBindingRemoved ==
    \E t \in Clients, sid \in SessionIds :
        /\ call[t].op = "remove_session"
        /\ call[t].session_id = sid
        /\ sid \notin DOMAIN session_mapping
        /\ \E B \in Emails \ {frame[t].user_email} :
              B \in DOMAIN sessions /\ sessions[B].session_id = sid

\* ------------------------------------------------- session ids after sign-out

\* a session id left behind by remove_session: it still names an email, and
\* that email has no session. Sessions are deleted by remove_session only,
\* and a store_session with the id would have bound it to an email that has
\* a session, so the id was bound to the email before the email's removal
\* and has not been stored since.
signed_out(tbl, map, session_id) ==
    session_id \in DOMAIN map /\ map[session_id] \notin DOMAIN tbl

\* the step is a store_session call that passes session_id
StoreSessionStep(session_id) ==
    \E t \in Clients :
        /\ call'[t].op = "store_session"
        /\ call'[t].session_id = session_id
        /\ result'[t] = Outcome(None)
        /\ session_id \in DOMAIN session_mapping'

\* C39: a session id that was bound to E when remove_session(E) ran gives
\* no credentials through get_credentials_by_session until store_session
\* is called with that session id again.
C39_SignOutFinal ==
    [][\A sid \in SessionIds :
          (signed_out(sessions, session_mapping, sid) /\ ~StoreSessionStep(sid))
             => credentials_of_session_id(sessions', session_mapping', sid)
                   = NoCredentials
      ]_vars

\* get_credentials_by_session answers for a session id that the session
\* of its email does not carry
C39_StaleIdResolves ==
    \E t \in Clients :
        /\ call[t].op = "get_credentials_by_session"
        /\ result[t].info # NoCredentials
        /\ call[t].session_id \in DOMAIN session_mapping
        /\ session_mapping[call[t].session_id] \in DOMAIN sessions
        /\ sessions[session_mapping[call[t].session_id]].session_id # call[t].session_id

\* ------------------------------------------- the listener, two callers
\* Two threads each call ensure_oauth_callback_available("stdio") once;
\* nothing serialises the calls.
EnsureCall(t) ==
    /\ call[t].op = "none"
    /\ ensure_oauth_callback_available(t, "stdio")

ListenerRaceNext ==
    \/ \E t \in Threads :
          \/ EnsureCall(t)
          \/ ensure_running(t)
          \/ start_thread(t)
          \/ start_poll(t)
    \/ \E i \in 1..MaxServerThreads : serve_bind(i) \/ serve_error(i)

SpecListenerRace == ListenerInit /\ [][ListenerRaceNext]_vars

\* C40: two concurrent calls of ensure_oauth_callback_available in stdio
\* mode, made while no listener runs, start at most one server thread.
C40_OneListenerThread ==
    Len(listener.server_threads) <= 1

\* both callers have started a server thread; the second one found the
\* port taken by the first and died
C40_TwoListenerThreads ==
    /\ \A t \in Threads : call[t].op = "ensure_oauth_callback_available"
    /\ ~listener.port_taken
    /\ listener.server_threads = <<"serving", "dead">>

====
